---- MODULE Spec2Model ----
(***************************************************************************)
(* Model of the knowledge_ai_bot chat client (frontend/src/hooks/useChat)  *)
(* together with the streaming session runtime and the conversation store  *)
(* it talks to.  The client is translated from useChat.ts; the runtime and *)
(* the REST surface are not part of the sources and follow spec.md 4.5/6.  *)
(***************************************************************************)
EXTENDS Integers, Sequences, FiniteSets, TLC

(* ------------------------------ bounds --------------------------------- *)
\* navigations (URL changes) after the hook is mounted
MaxNav == 1
\* accepted sendMessage calls
MaxTurns == 2
\* delta frames the runtime emits, all turns together
MaxDeltas == 2
\* largest value Date.now() takes
MaxNow == 1
\* frames a channel holds on their way to the client
MaxInbox == 1
\* conversations the listing holds
MaxListed == 41
\* getConversations calls ConversationList issues
MaxCalls == 4
\* rows ever inserted into public.user_domain_access
MaxAccess == 3
\* length of a configuration string
MaxText == 5
\* load_yaml calls
MaxLoads == 3
\* requests made through apiClient
MaxRequests == 2

(* ----------------------------- vocabulary ------------------------------ *)
Null == "null"
\* conversations that exist in the store before the chat is opened
KnownConvs == {"cA", "cB"}
\* identifiers the store hands out for newly created conversations
NewConvSeq == <<"n1", "n2", "n3", "n4">>
NewConvs == {NewConvSeq[k] : k \in 1..Len(NewConvSeq)}
\* what useSearchParams().get('conversation') can return
UrlValues == KnownConvs \cup {Null}
\* the URL the chat is first opened with: an existing conversation or none
StartUrls == {"cA", Null}

\* characters: SP is a blank, X a visible character
SP == 0
X == 7
\* texts handed to sendMessage
Texts == {<< >>, <<SP>>, <<X>>}
\* the k-th text fragment the generation capability produces in a turn
Frag(k) == <<k>>
\* the human-readable cause carried by an error frame
ErrCause == <<9>>
\* the prefix of the error placeholder's content
ErrPrefix == <<8>>

\* users and domains of the access table
Users == {"u1", "u2"}
DomainIds == {"horse-racing", "customer-support"}

\* characters of configuration text: the placeholder syntax, a letter that
\* is the name of an environment variable and a letter that is not
Chars == {"$", "{", "}", "A", "v"}
\* names of environment variables
EnvNames == {<<"A">>}
\* values an environment variable can be set to
EnvValues == {<<"v">>, <<"v", "v">>}
\* what stands for a text that is absent (None); no text equals it
Unset == <<Null>>
\* ROUTES
HOME == "/"
LOGIN == "/login"
REGISTER == "/register"
CHAT == "/chat"
DOMAINS == "/domains"
RouteValues == {HOME, LOGIN, REGISTER, CHAT, DOMAINS}
\* the routes whose element is wrapped in ProtectedRoute
ProtectedRoutes == {CHAT, DOMAINS}

\* the schema every search_path ends with
public == "public"
\* the schemas of the domains
DomainSchemas == {"horse_racing", "customer_support"}
Schemas == {public} \cup DomainSchemas
\* table names, unqualified
Tables == {"users", "races", "tickets"}
\* the outcome of a statement whose table no schema of the path defines
UndefinedTable == "UndefinedTable"

\* names a tools module can define, in the order dir() lists them; the
\* first one is private
ModuleNames == <<"_p", "a", "b", "c">>
\* capability names a bundle can declare
CapNames == {"a", "b", "c"}

\* API_ENDPOINTS of the authentication service
AUTH_REGISTER == "/api/auth/register"
AUTH_LOGIN == "/api/auth/login"
\* passwords a user may type: too short, and two of eight characters
Passwords == {<<"p", "w">>,
              <<"p", "a", "s", "s", "w", "o", "r", "d">>,
              <<"p", "a", "s", "s", "w", "o", "r", "t">>}
\* messages RegisterForm shows
FormErrors == {"", "passwords differ", "password shorter than 8",
               "Registration failed"}

\* STORAGE_KEYS
STORAGE_KEYS == {"access_token", "refresh_token", "token_expires_at", "user"}
\* HTTP statuses of a response; NoResponse stands for a request that got none
NoResponse == "none"
Statuses == {"200", "401", "403", "500", NoResponse}

\* the key paths of a mapping document: agents.default.model, written A,
\* and agent.model, written B
ConfigKeys == {"A", "B"}
KeyOrder == <<"A", "B">>
\* the string values a key can hold
Values ==
  {<<"v">>, <<"v", "v">>, <<"A">>, <<"$", "{", "A", "}">>,
   <<"v", "$", "{", "A", "}">>}

\* the configuration documents load_yaml is asked for
Files == {"app.config.yaml", "domains/horse-racing/domain.yaml"}
\* what a document can hold: a plain value or a value with a placeholder
Docs == {<<"v">>, <<"$", "{", "A", "}">>}

\* const limit = 20 in ConversationList
limit == 20

\* the empty string held by currentMessageIdRef
NoId == [kind |-> "", n |-> 0]

VARIABLES
  mounted,              \* useChat has been mounted
  searchParams,         \* the 'conversation' URL parameter
  navCount,             \* URL changes so far (bound)
  accessToken,          \* storage.getAccessToken()
  messages,             \* React state 'messages'
  messagesRef,          \* messagesRef.current
  isStreaming,          \* React state 'isStreaming'
  conversationId,       \* React state 'conversationId'
  wsRef,                \* wsRef.current: index into sockets, 0 for null
  currentMessageRef,    \* currentMessageRef.current
  currentMessageIdRef,  \* currentMessageIdRef.current
  now,                  \* Date.now()
  sockets,              \* every WebSocket created so far, with its channel
  reqs,                 \* HTTP requests of initConversation in flight
  convs,                \* conversations in the store
  stored,               \* messages in the store, per conversation
  finalized,            \* transcript when done was last handled (history variable)
  lastEvent,            \* the handler that last wrote the transcript or the
                        \* provisional slot (history variable)
  turns                 \* per turn bookkeeping (history variable)

\* ConversationList and the listing it pages through
VARIABLES
  listOpen,             \* ConversationList has been mounted
  conversations,        \* React state 'conversations' (displayed list)
  loading,              \* React state 'loading'
  hasMore,              \* React state 'hasMore'
  offset,               \* React state 'offset'
  listCalls,            \* getConversations calls in flight
  issued,               \* offsets requested so far (history variable)
  srvList               \* the user's conversations in listing order

chatVars == <<mounted, searchParams, navCount, accessToken, messages,
              messagesRef, isStreaming, conversationId, wsRef,
              currentMessageRef, currentMessageIdRef, now, sockets, reqs,
              convs, stored, finalized, lastEvent, turns>>
\* conversations removed by a delete request (history variable)
VARIABLE deleted

\* public.user_domain_access and the domain access endpoints
VARIABLES
  accessRows,           \* rows of public.user_domain_access
  accessSeq,            \* rows inserted so far: next access_id and timestamp
  accessResp            \* the last response of a request or revoke call

listVars == <<listOpen, conversations, loading, hasMore, offset, listCalls,
              issued, srvList>>
\* the state of the components other than the chat
\* ConfigLoader and the environment it reads
VARIABLES
  environ,              \* os.environ: variable name -> value or Unset
  rawText,              \* the string handed to _expand_env_vars
  expandedText          \* what _expand_env_vars returned, Unset before the call

\* a ConfigLoader instance and the configuration directory
VARIABLES
  files,                \* the documents on disk: filename -> text
  cache,                \* self._cache: filename -> config, Unset if absent
  loads,                \* load_yaml calls so far (bound)
  fileReads,            \* reads of each file by this instance (history variable)
  firstResult,          \* what the first load_yaml of this instance returned
                        \* for each file (history variable)
  lastLoad              \* the last load_yaml call and its result (history variable)

\* ToolLoader and the tools module of a domain
VARIABLES
  declared,             \* capability names the bundle declares, in order
  toolsModule,          \* app.domains.<id>.tools: whether it can be imported
                        \* and the names of the callables it defines
  loadResult            \* what load_tools_for_domain did, NoLoadResult before

\* the database: schemas, the connection of a domain
VARIABLES
  catalog,              \* the tables that exist, as <<schema, table>> pairs
  domainSchema,         \* database.schema of the active domain, Null if the
                        \* domain configuration has no such key
  dbConn,               \* the connection get_db_connection_for_domain
                        \* returned: its schema and its search_path
  lastQuery             \* the last statement run on the connection and the
                        \* table it reached

\* AuthProvider and the routes of App
VARIABLES
  authState,            \* isAuthenticated and isLoading of AuthProvider
  storedToken,          \* storage holds an access token and a user, and the
                        \* token has not expired
  authCalls,            \* initAuth before it ran, and the auth requests in
                        \* flight
  route,                \* the current location
  rendered              \* the element the matching Route shows

\* a configuration document that parses to a mapping, and its load
VARIABLES
  yamlDoc,              \* yaml.safe_load(f): key path -> string value
  loadedDoc             \* what load_yaml returned for it, NotLoaded before

\* apiClient, the browser's localStorage and location
VARIABLES
  localStorage,         \* which of the STORAGE_KEYS hold an item
  href,                 \* window.location.href
  apiCalls              \* the requests made through apiClient, with what
                        \* the response interceptor did for each

\* RegisterForm and the requests authService has posted
VARIABLES
  registerForm,         \* password, confirmPassword, error and isLoading
  authPosts             \* the posts of authService, in the order made

\* AuthProvider's state next to what storage holds
VARIABLES
  session,              \* AuthState: user and tokens present, the two flags
  sessionCalls,         \* calls of authService that have not settled
  sinceLogout           \* logout has completed and no login since
                        \* (history variable)

\* InputBox
VARIABLE input          \* React state 'input': the draft being typed

loaderVars == <<files, cache, loads, fileReads, firstResult, lastLoad>>
inputVars == <<input>>
sessVars == <<session, sessionCalls, sinceLogout>>
formVars == <<registerForm, authPosts>>
apiVars == <<localStorage, href, apiCalls>>
refVars == <<yamlDoc, loadedDoc>>
authVars == <<authState, storedToken, authCalls, route, rendered>>
dbVars == <<catalog, domainSchema, dbConn, lastQuery>>
toolVars == <<declared, toolsModule, loadResult>>
accessVars == <<accessRows, accessSeq, accessResp>>
expandVars == <<environ, rawText, expandedText>>
\* the components modelled after the list page
morePages == <<accessVars, expandVars, loaderVars, toolVars,
              dbVars, authVars, refVars, apiVars,
              formVars, sessVars, inputVars>>
pageVars == <<listVars, deleted, morePages>>

vars == <<chatVars, pageVars>>

clientVars == <<messages, messagesRef, isStreaming, conversationId, wsRef,
                currentMessageRef, currentMessageIdRef>>
urlVars == <<mounted, searchParams, navCount, accessToken>>
histVars == <<finalized, lastEvent>>
storeVars == <<convs, stored>>

(* ------------------------------ helpers -------------------------------- *)
Last(s) == s[Len(s)]

RECURSIVE TrimLeft(_)
TrimLeft(t) == IF t # << >> /\ Head(t) = SP THEN TrimLeft(Tail(t)) ELSE t

RECURSIVE TrimRight(_)
TrimRight(t) ==
  IF t # << >> /\ Last(t) = SP THEN TrimRight(SubSeq(t, 1, Len(t) - 1)) ELSE t

\* String.prototype.trim
Trim(t) == TrimRight(TrimLeft(t))

\* the values Date.now() can return: time does not run backwards
Clock == {t \in now..(now + 1) : t <= MaxNow}

\* `${kind}-${Date.now()}` when Date.now() returns d
MakeId(kind, d) == [kind |-> kind, n |-> d]

\* the Message a client handler builds at time d
NewMessage(kind, d, role, content, t) ==
  [id |-> MakeId(kind, d), role |-> role, content |-> content, turn |-> t]

\* a server-to-client frame
Frame(type, content, message, t) ==
  [type |-> type, content |-> content, message |-> message, turn |-> t]

\* a new WebSocket and the server end of its channel
NewSocket(c) ==
  [conv |-> c, readyState |-> "CONNECTING", inbox |-> << >>, outbox |-> << >>,
   rt |-> "Idle", rtTurn |-> 0, rtAcc |-> << >>]

\* bookkeeping record of a turn that starts on socket s:
\*   base     length of the transcript right after the send
\*   overlap  an earlier turn of the same socket had no terminal frame yet
\*   n, clean deltas the client folded; no other writer touched the transcript
\*   cstate   open until the client handles the turn's terminal frame
\*   held     contents of the turn's assistant entries at the terminal frame
\*   emitted, deltas, srv   the runtime's side: frame types emitted, their
\*            concatenated fragments, none/active/ended
NewTurn(s, text, base, overlap) ==
  [sock |-> s, text |-> text, base |-> base, overlap |-> overlap, n |-> 0,
   clean |-> TRUE, cstate |-> "open", held |-> << >>, emitted |-> << >>,
   deltas |-> << >>, srv |-> "none"]

\* every open turn other than t has seen a change that is not its own
Disturb(ts, t) ==
  [i \in 1..Len(ts) |->
     IF i # t /\ ts[i].cstate = "open" THEN [ts[i] EXCEPT !.clean = FALSE]
     ELSE ts[i]]

\* conversation.messages.map(m => ({id, role, content, timestamp}))
PastMessages(body) ==
  [i \in 1..Len(body) |->
     [id |-> body[i].message_id, role |-> body[i].role,
      content |-> body[i].content, turn |-> body[i].turn]]

\* s without its i-th element
RemoveAt(s, i) == SubSeq(s, 1, i - 1) \o SubSeq(s, i + 1, Len(s))

\* the k-th row of public.messages for conversation c; its message_id is
\* unique in the table
Row(c, k, role, content, t) ==
  [message_id |-> [kind |-> c, n |-> k], role |-> role, content |-> content,
   turn |-> t]

\* an HTTP request issued by initConversation
Request(kind, c) == [kind |-> kind, conv |-> c, phase |-> "req", body |-> << >>]

\* the Messages the known conversations hold when the chat is opened
InitStored ==
  [c \in KnownConvs \cup NewConvs |->
     IF c = "cA"
     THEN <<Row(c, 1, "user", <<X>>, 0), Row(c, 2, "assistant", <<1>>, 0)>>
     ELSE IF c = "cB" THEN <<Row(c, 1, "user", <<X>>, 0)>>
     ELSE << >>]

\* nothing has written the transcript or the slot yet
NoEvent == [type |-> "none", turn |-> 0, len |-> 0]

(* ------------------------------- Init ---------------------------------- *)
\* the chat before useChat is mounted, opened with URL value u and token tok
ChatStart(u, tok) ==
  /\ mounted = FALSE
  /\ searchParams = u
  /\ navCount = 0
  /\ accessToken = tok
  /\ messages = << >>
  /\ messagesRef = << >>
  /\ isStreaming = FALSE
  /\ conversationId = Null
  /\ wsRef = 0
  /\ currentMessageRef = << >>
  /\ currentMessageIdRef = NoId
  /\ now = 0
  /\ sockets = << >>
  /\ reqs = << >>
  /\ convs = KnownConvs
  /\ stored = InitStored
  /\ finalized = << >>
  /\ lastEvent = NoEvent
  /\ turns = << >>

\* ConversationList before it is mounted, the listing holding n conversations
ListStart(n) ==
  /\ listOpen = FALSE
  /\ conversations = << >>
  /\ loading = TRUE
  /\ hasMore = FALSE
  /\ offset = 0
  /\ listCalls = << >>
  /\ issued = << >>
  /\ srvList = [i \in 1..n |-> i]

\* no call has been answered yet
NoResp == [op |-> "none", user |-> Null, domain |-> Null, ok |-> TRUE,
           detail |-> Null, before |-> {}]

\* the access table is empty and no call has been made
AccessStart ==
  /\ accessRows = {}
  /\ accessSeq = 0
  /\ accessResp = NoResp

\* no variable is set and nothing has been expanded
ExpandStart ==
  /\ environ = [n \in EnvNames |-> Unset]
  /\ rawText = << >>
  /\ expandedText = Unset

\* no load_yaml call has been made
NoLoad == [file |-> Null, result |-> Unset, hit |-> FALSE]

\* a new ConfigLoader over the documents fs
LoaderStart(fs) ==
  /\ files = fs
  /\ cache = [f \in Files |-> Unset]
  /\ loads = 0
  /\ fileReads = [f \in Files |-> 0]
  /\ firstResult = [f \in Files |-> Unset]
  /\ lastLoad = NoLoad

\* load_tools_for_domain has not been called
NoLoadResult == [called |-> FALSE, raised |-> FALSE, tools |-> << >>,
                 warnings |-> << >>]

\* a bundle declaring the names ds, its tools module being m
ToolsStart(ds, m) ==
  /\ declared = ds
  /\ toolsModule = m
  /\ loadResult = NoLoadResult

\* what a Route shows: an element, and the target of a Navigate
Shows(el, to) == [element |-> el, to |-> to]

\* ProtectedRoute without the isAuthenticated test
ProtectedRoute_NoAuthCheck(auth) ==
  IF auth.isLoading THEN Shows("spinner", Null)
  ELSE Shows("children", Null)

\* ProtectedRoute: the spinner while loading, Navigate to LOGIN when not
\* authenticated, the children otherwise
ProtectedRoute(auth) ==
  IF auth.isLoading THEN Shows("spinner", Null)
  ELSE IF ~auth.isAuthenticated THEN Shows("Navigate", LOGIN)
  ELSE Shows("children", Null)

\* the element of the Route matching location r
Routes(r, auth) ==
  CASE r = HOME -> Shows("Navigate", CHAT)
    [] r = LOGIN -> Shows("LoginPage", Null)
    [] r = REGISTER -> Shows("RegisterPage", Null)
    [] r \in ProtectedRoutes -> ProtectedRoute(auth)

\* AuthProvider mounted, initAuth not run yet, the app opened at location r
AuthStart(tok, r) ==
  /\ authState = [isAuthenticated |-> FALSE, isLoading |-> TRUE]
  /\ storedToken = tok
  /\ authCalls = {"initAuth"}
  /\ route = r
  /\ rendered = Routes(r, authState)

\* a mapping document without placeholders
PlainDoc == [k \in ConfigKeys |-> <<"v">>]
\* load_yaml has not been called for the mapping document
NotLoaded == [loaded |-> FALSE, error |-> "none", config |-> PlainDoc]

\* the mapping document doc on disk, not loaded yet
RefStart(doc) ==
  /\ yamlDoc = doc
  /\ loadedDoc = NotLoaded

\* useState<AuthState> of AuthProvider; initAuth is about to run
SessStart ==
  /\ session = [user |-> FALSE, tokens |-> FALSE, isAuthenticated |-> FALSE,
                isLoading |-> TRUE]
  /\ sessionCalls = {"initAuth"}
  /\ sinceLogout = FALSE

\* RegisterForm mounted with empty fields, nothing posted yet
FormStart ==
  /\ registerForm = [password |-> << >>, confirmPassword |-> << >>,
                     error |-> "", isLoading |-> FALSE]
  /\ authPosts = << >>

\* localStorage without any item of the application
NoItems == [k \in STORAGE_KEYS |-> FALSE]

\* the page at location loc, localStorage holding items, no request made
ApiStart(items, loc) ==
  /\ localStorage = items
  /\ href = loc
  /\ apiCalls = << >>

\* no connection is open
NoConn == [open |-> FALSE, schema |-> Null, search_path |-> << >>]
\* no statement has been run
NoQuery == [ran |-> FALSE, table |-> Null, reached |-> Null]

\* the database holding the tables cat, the active domain naming schema sch
DbStart(cat, sch) ==
  /\ catalog = cat
  /\ domainSchema = sch
  /\ dbConn = NoConn
  /\ lastQuery = NoQuery

\* the components after the list page, before they are used
MoreStart ==
  /\ AccessStart
  /\ input = << >>
  /\ SessStart
  /\ FormStart
  /\ ExpandStart
  /\ LoaderStart([f \in Files |-> << >>])
  /\ ToolsStart(<< >>, [importable |-> FALSE, names |-> {}])
  /\ DbStart({}, Null)
  /\ AuthStart(FALSE, CHAT)
  /\ RefStart(PlainDoc)
  /\ ApiStart(NoItems, CHAT)

Init ==
  /\ \E u \in StartUrls, tok \in {"tok", Null} : ChatStart(u, tok)
  /\ ListStart(0)
  /\ deleted = {}
  /\ MoreStart

(* ------------------------- useChat: effects ---------------------------- *)
\* updateMessages(newMessages)
updateMessages(newMessages) ==
  /\ messagesRef' = newMessages
  /\ messages' = newMessages

\* ws.close(): the socket is CLOSING from here on (its later close event
\* only logs), and the channel carries nothing any more
CloseSocket(sk) ==
  [sk EXCEPT !.readyState = "CLOSING", !.inbox = << >>, !.outbox = << >>]

\* a cleanup that leaves the socket as it is
Cleanup_LeavesOpen(ss) == ss

\* the WebSocket effect's cleanup: the socket it created is closed if OPEN
Cleanup(ss) ==
  IF wsRef # 0 /\ ss[wsRef].readyState = "OPEN"
  THEN [ss EXCEPT ![wsRef] = CloseSocket(@)]
  ELSE ss

\* setConversationId whose effect run still sees the previous conversationId
setConversationId_StaleChannel(c) ==
  /\ conversationId' = c
  /\ IF c = conversationId \/ accessToken = Null
     THEN UNCHANGED <<sockets, wsRef>>
     ELSE /\ sockets' = Append(Cleanup(sockets), NewSocket(conversationId))
          /\ wsRef' = Len(sockets) + 1

\* setConversationId(c) and the re-render it causes: when the value changes
\* the WebSocket effect is cleaned up and runs again for c
setConversationId(c) ==
  /\ conversationId' = c
  /\ IF c = conversationId \/ accessToken = Null
     THEN UNCHANGED <<sockets, wsRef>>
     ELSE /\ sockets' = Append(Cleanup(sockets), NewSocket(c))
          /\ wsRef' = Len(sockets) + 1

\* the synchronous part of initConversation for URL value u
initConversation(u) ==
  IF u # Null
  THEN /\ setConversationId(u)
       /\ reqs' = Append(reqs, Request("get", u))
  ELSE /\ reqs' = Append(reqs, Request("create", Null))
       /\ UNCHANGED <<conversationId, sockets, wsRef>>

\* first render of the hook: the initConversation effect runs
Mount ==
  /\ ~mounted
  /\ mounted' = TRUE
  /\ initConversation(searchParams)
  /\ UNCHANGED <<pageVars, searchParams, navCount, accessToken, messages,
                 messagesRef,
                 isStreaming, currentMessageRef, currentMessageIdRef, now,
                 storeVars, histVars, turns>>

\* the URL changes while the hook is mounted: the effect runs again
Navigate(u) ==
  /\ mounted
  /\ navCount < MaxNav
  /\ u # searchParams
  /\ searchParams' = u
  /\ navCount' = navCount + 1
  /\ initConversation(u)
  /\ UNCHANGED <<pageVars, mounted, accessToken, messages, messagesRef,
                 isStreaming,
                 currentMessageRef, currentMessageIdRef, now, storeVars,
                 histVars, turns>>

\* GET /api/conversations/{id}: the store answers with the ordered Messages
ServeGet(i) ==
  /\ i \in 1..Len(reqs)
  /\ reqs[i].kind = "get" /\ reqs[i].phase = "req"
  /\ reqs' = [reqs EXCEPT ![i] =
               IF reqs[i].conv \in convs
               THEN [@ EXCEPT !.phase = "resp", !.body = stored[reqs[i].conv]]
               ELSE [@ EXCEPT !.phase = "err"]]
  /\ UNCHANGED <<pageVars, urlVars, clientVars, now, sockets, storeVars, histVars, turns>>

\* the lowest identifier the store has not handed out yet
FreshConv ==
  LET k == CHOOSE k \in 1..Len(NewConvSeq) :
             /\ NewConvSeq[k] \notin convs \cup deleted
             /\ \A j \in 1..(k - 1) : NewConvSeq[j] \in convs \cup deleted
  IN NewConvSeq[k]

\* ReturnGet that merges the past Messages into the transcript
ReturnGet_Merges(i) ==
  /\ i \in 1..Len(reqs)
  /\ reqs[i].kind = "get" /\ reqs[i].phase = "resp"
  /\ reqs' = RemoveAt(reqs, i)
  /\ updateMessages(messagesRef \o PastMessages(reqs[i].body))
  /\ turns' = Disturb(turns, 0)
  /\ finalized' = << >>
  /\ lastEvent' = [type |-> "history", turn |-> 0, len |-> Len(messagesRef)]
  /\ UNCHANGED <<pageVars, urlVars, isStreaming, conversationId, wsRef,
                 currentMessageRef, currentMessageIdRef, now, sockets,
                 storeVars>>

\* initConversation resumes after getConversation: the past Messages
\* replace the transcript
ReturnGet(i) ==
  /\ i \in 1..Len(reqs)
  /\ reqs[i].kind = "get" /\ reqs[i].phase = "resp"
  /\ reqs' = RemoveAt(reqs, i)
  /\ updateMessages(PastMessages(reqs[i].body))
  /\ turns' = Disturb(turns, 0)
  /\ finalized' = << >>
  /\ lastEvent' = [type |-> "history", turn |-> 0, len |-> Len(messagesRef)]
  /\ UNCHANGED <<pageVars, urlVars, isStreaming, conversationId, wsRef,
                 currentMessageRef, currentMessageIdRef, now, sockets,
                 storeVars>>

\* POST /api/conversations creates a Conversation and initConversation
\* resumes with its identifier
ReturnCreate(i) ==
  /\ i \in 1..Len(reqs)
  /\ reqs[i].kind = "create" /\ reqs[i].phase = "req"
  /\ NewConvs \ (convs \cup deleted) # {}
  /\ reqs' = RemoveAt(reqs, i)
  /\ convs' = convs \cup {FreshConv}
  /\ setConversationId(FreshConv)
  /\ UNCHANGED <<pageVars, urlVars, messages, messagesRef, isStreaming,
                 currentMessageRef, currentMessageIdRef, now, stored,
                 histVars, turns>>

\* a request fails (network error or error status): the awaited call throws
\* and the catch block only logs
HttpFail(i) ==
  /\ i \in 1..Len(reqs)
  /\ reqs[i].phase \in {"req", "err"}
  /\ reqs' = RemoveAt(reqs, i)
  /\ UNCHANGED <<pageVars, urlVars, clientVars, now, sockets, storeVars, histVars, turns>>

\* ws.onopen
WsOpen(s) ==
  /\ s \in 1..Len(sockets)
  /\ sockets[s].readyState = "CONNECTING"
  /\ sockets' = [sockets EXCEPT ![s].readyState = "OPEN"]
  /\ UNCHANGED <<pageVars, urlVars, clientVars, now, reqs, storeVars, histVars, turns>>

\* the connection fails: ws.onerror, then ws.onclose
WsFail(s) ==
  /\ s \in 1..Len(sockets)
  /\ sockets[s].readyState \in {"CONNECTING", "OPEN"}
  /\ sockets' = [sockets EXCEPT ![s].readyState = "CLOSED",
                                ![s].inbox = << >>, ![s].outbox = << >>]
  /\ isStreaming' = FALSE
  /\ UNCHANGED <<pageVars, urlVars, messages, messagesRef, conversationId, wsRef,
                 currentMessageRef, currentMessageIdRef, now, reqs, storeVars,
                 histVars, turns>>

\* the channel is closed from the server's side without an error: only
\* ws.onclose runs, and it only logs
WsClose(s) ==
  /\ s \in 1..Len(sockets)
  /\ sockets[s].readyState = "OPEN"
  /\ sockets' = [sockets EXCEPT ![s].readyState = "CLOSED",
                                ![s].inbox = << >>, ![s].outbox = << >>]
  /\ UNCHANGED <<pageVars, urlVars, clientVars, now, reqs, storeVars, histVars, turns>>

\* OnDelta with the lookup of the provisional entry lost: every delta
\* appends a new entry
OnDelta_AlwaysAppends(f, d) ==
  LET cur == currentMessageRef \o f.content
  IN /\ currentMessageRef' = cur
     /\ currentMessageIdRef' = MakeId("assistant", d)
     /\ updateMessages(Append(messagesRef,
           NewMessage("assistant", d, "assistant", cur, f.turn)))
     /\ turns' = [Disturb(turns, f.turn) EXCEPT ![f.turn].n = @ + 1]
     /\ UNCHANGED <<isStreaming, finalized>>

\* the 'delta' branch of ws.onmessage
OnDelta(f, d) ==
  LET cur == currentMessageRef \o f.content
      n == Len(messagesRef)
  IN /\ currentMessageRef' = cur
     /\ IF n > 0 /\ messagesRef[n].id = currentMessageIdRef
        THEN /\ updateMessages([messagesRef EXCEPT ![n].content = cur])
             /\ UNCHANGED currentMessageIdRef
        ELSE /\ currentMessageIdRef' = MakeId("assistant", d)
             /\ updateMessages(Append(messagesRef,
                   NewMessage("assistant", d, "assistant", cur, f.turn)))
     /\ turns' = [Disturb(turns, f.turn) EXCEPT ![f.turn].n = @ + 1]
     /\ UNCHANGED <<isStreaming, finalized>>

\* contents of the assistant entries that turn t's deltas created
Held(t) ==
  LET idx == {i \in 1..Len(messagesRef) :
                messagesRef[i].turn = t /\ messagesRef[i].id.kind = "assistant"}
      RECURSIVE pick(_)
      pick(i) == IF i > Len(messagesRef) THEN << >>
                 ELSE (IF i \in idx THEN <<messagesRef[i].content>> ELSE << >>)
                      \o pick(i + 1)
  IN pick(1)

\* OnDone that forgets to clear currentMessageIdRef
OnDone_KeepsId(f) ==
  /\ isStreaming' = FALSE
  /\ currentMessageRef' = << >>
  /\ turns' = [turns EXCEPT ![f.turn].cstate = "done", ![f.turn].held = Held(f.turn)]
  /\ finalized' = messagesRef
  /\ UNCHANGED <<messages, messagesRef, currentMessageIdRef>>

\* the 'done' branch of ws.onmessage
OnDone(f) ==
  /\ isStreaming' = FALSE
  /\ currentMessageRef' = << >>
  /\ currentMessageIdRef' = NoId
  /\ turns' = [turns EXCEPT ![f.turn].cstate = "done", ![f.turn].held = Held(f.turn)]
  /\ finalized' = messagesRef
  /\ UNCHANGED <<messages, messagesRef>>

\* OnError that replaces the provisional entry by the placeholder
OnError_ReplacesPartial(f, d) ==
  LET n == Len(messagesRef)
      kept == IF n > 0 /\ messagesRef[n].id = currentMessageIdRef
              THEN SubSeq(messagesRef, 1, n - 1) ELSE messagesRef
  IN /\ isStreaming' = FALSE
     /\ currentMessageRef' = << >>
     /\ currentMessageIdRef' = NoId
     /\ updateMessages(Append(kept,
           NewMessage("error", d, "assistant", ErrPrefix \o f.message, f.turn)))
     /\ turns' = [Disturb(turns, f.turn) EXCEPT
                    ![f.turn].cstate = "error", ![f.turn].held = Held(f.turn)]
     /\ UNCHANGED finalized

\* OnError that leaves isStreaming set
OnError_KeepsStreaming(f, d) ==
  /\ currentMessageRef' = << >>
  /\ currentMessageIdRef' = NoId
  /\ updateMessages(Append(messagesRef,
        NewMessage("error", d, "assistant", ErrPrefix \o f.message, f.turn)))
  /\ turns' = [Disturb(turns, f.turn) EXCEPT
                 ![f.turn].cstate = "error", ![f.turn].held = Held(f.turn)]
  /\ UNCHANGED <<isStreaming, finalized>>

\* the 'error' branch of ws.onmessage
OnError(f, d) ==
  /\ isStreaming' = FALSE
  /\ currentMessageRef' = << >>
  /\ currentMessageIdRef' = NoId
  /\ updateMessages(Append(messagesRef,
        NewMessage("error", d, "assistant", ErrPrefix \o f.message, f.turn)))
  /\ turns' = [Disturb(turns, f.turn) EXCEPT
                 ![f.turn].cstate = "error", ![f.turn].held = Held(f.turn)]
  /\ UNCHANGED finalized

\* ws.onmessage of socket s for the next frame of its channel, at time d
OnMessage(s, d) ==
  /\ s \in 1..Len(sockets)
  /\ sockets[s].readyState = "OPEN"
  /\ sockets[s].inbox # << >>
  /\ d \in Clock
  /\ now' = d
  /\ sockets' = [sockets EXCEPT ![s].inbox = Tail(@)]
  /\ LET f == Head(sockets[s].inbox)
     IN /\ CASE f.type = "delta" -> OnDelta(f, d)
               [] f.type = "done" -> OnDone(f)
               [] f.type = "error" -> OnError(f, d)
        /\ lastEvent' = [type |-> f.type, turn |-> f.turn,
                         len |-> Len(messagesRef)]
  /\ UNCHANGED <<pageVars, urlVars, conversationId, wsRef, reqs, storeVars>>

\* sendMessage without the check of ws.readyState
sendMessage_IgnoresReadyState(text, d) ==
  /\ mounted
  /\ d \in Clock
  /\ IF Trim(text) = << >> \/ wsRef = 0 \/ isStreaming
     THEN UNCHANGED vars
     ELSE IF FALSE
     THEN UNCHANGED vars
     ELSE /\ Len(turns) < MaxTurns
          /\ updateMessages(Append(messagesRef,
                NewMessage("user", d, "user", text, Len(turns) + 1)))
          /\ now' = d
          /\ isStreaming' = TRUE
          /\ currentMessageRef' = << >>
          /\ currentMessageIdRef' = NoId
          /\ sockets' = [sockets EXCEPT ![wsRef].outbox =
                 Append(@, [message |-> text, turn |-> Len(turns) + 1])]
          /\ turns' = Append(Disturb(turns, 0),
                 NewTurn(wsRef, text, Len(messagesRef) + 1,
                         \E t \in 1..Len(turns) :
                            turns[t].sock = wsRef /\ turns[t].cstate = "open"))
          /\ lastEvent' = [type |-> "send", turn |-> Len(turns) + 1,
                           len |-> Len(messagesRef)]
          /\ UNCHANGED <<pageVars, urlVars, conversationId, wsRef, reqs, storeVars,
                         finalized>>

\* sendMessage(text) at time d, as it acts on the state of useChat; InputBox
\* receives it as its onSend prop
onSend(text, d) ==
  /\ mounted
  /\ d \in Clock
  /\ IF Trim(text) = << >> \/ wsRef = 0 \/ isStreaming
     THEN UNCHANGED chatVars
     ELSE IF sockets[wsRef].readyState # "OPEN"
     THEN UNCHANGED chatVars
     ELSE /\ Len(turns) < MaxTurns
          /\ updateMessages(Append(messagesRef,
                NewMessage("user", d, "user", text, Len(turns) + 1)))
          /\ now' = d
          /\ isStreaming' = TRUE
          /\ currentMessageRef' = << >>
          /\ currentMessageIdRef' = NoId
          /\ sockets' = [sockets EXCEPT ![wsRef].outbox =
                 Append(@, [message |-> text, turn |-> Len(turns) + 1])]
          /\ turns' = Append(Disturb(turns, 0),
                 NewTurn(wsRef, text, Len(messagesRef) + 1,
                         \E t \in 1..Len(turns) :
                            turns[t].sock = wsRef /\ turns[t].cstate = "open"))
          /\ lastEvent' = [type |-> "send", turn |-> Len(turns) + 1,
                           len |-> Len(messagesRef)]
          /\ UNCHANGED <<urlVars, conversationId, wsRef, reqs, storeVars,
                         finalized>>

\* sendMessage(text) at time d
sendMessage(text, d) ==
  /\ onSend(text, d)
  /\ UNCHANGED pageVars

\* the user edits the draft; the textarea is disabled while streaming
setInput(text) ==
  /\ mounted
  /\ ~isStreaming
  /\ text # input
  /\ input' = text
  /\ UNCHANGED <<chatVars, listVars, deleted, accessVars, expandVars,
                 loaderVars, toolVars, dbVars, authVars, refVars, apiVars,
                 formVars, sessVars>>

\* InputBox.handleSend at time d, with disabled = isStreaming
handleSend(d) ==
  IF Trim(input) # << >> /\ ~isStreaming
  THEN /\ onSend(Trim(input), d)
       /\ input' = << >>
       /\ UNCHANGED <<listVars, deleted, accessVars, expandVars,
                      loaderVars, toolVars, dbVars, authVars, refVars, apiVars,
                      formVars, sessVars>>
  ELSE UNCHANGED vars

(* ------------------ streaming session runtime (spec 4.5) ---------------- *)
\* InTurn that still counts a turn whose done frame is out
InTurn_AfterDone(sk) == sk.rt \in {"Generating", "Delivering", "Completed"}

\* the runtime is between the user frame and the terminal frame of a turn
InTurn(sk) == sk.rt \in {"Generating", "Delivering"}

\* INSERT INTO public.messages: the row must reference a conversation that
\* exists, else the insert is rejected
Insert(c, role, content, t) ==
  IF c \in convs
  THEN [stored EXCEPT ![c] = Append(@, Row(c, Len(@) + 1, role, content, t))]
  ELSE stored

\* RtReceive that starts generating without persisting the user Message
RtReceive_NoPersist(s) ==
  /\ s \in 1..Len(sockets)
  /\ sockets[s].readyState = "OPEN"
  /\ sockets[s].rt = "Idle"
  /\ sockets[s].outbox # << >>
  /\ LET m == Head(sockets[s].outbox)
     IN /\ sockets' = [sockets EXCEPT ![s].outbox = Tail(@),
                                      ![s].rt = "Generating",
                                      ![s].rtTurn = m.turn,
                                      ![s].rtAcc = << >>]
        /\ turns' = [turns EXCEPT ![m.turn].srv = "active"]
  /\ UNCHANGED <<pageVars, urlVars, clientVars, now, reqs, storeVars, histVars>>

\* Idle -> Generating: an inbound user frame is read and the user Message is
\* persisted immediately
RtReceive(s) ==
  /\ s \in 1..Len(sockets)
  /\ sockets[s].readyState = "OPEN"
  /\ sockets[s].rt = "Idle"
  /\ sockets[s].outbox # << >>
  /\ sockets[s].conv \in convs
  /\ LET m == Head(sockets[s].outbox)
     IN /\ sockets' = [sockets EXCEPT ![s].outbox = Tail(@),
                                      ![s].rt = "Generating",
                                      ![s].rtTurn = m.turn,
                                      ![s].rtAcc = << >>]
        /\ stored' = [stored EXCEPT ![sockets[s].conv] =
                        Append(@, Row(sockets[s].conv, Len(@) + 1, "user",
                                      m.message, m.turn))]
        /\ turns' = [turns EXCEPT ![m.turn].srv = "active"]
  /\ UNCHANGED <<pageVars, urlVars, clientVars, now, reqs, convs, histVars>>

\* the delta frames emitted so far, over the first k turns
RECURSIVE DeltasEmitted(_)
DeltasEmitted(k) ==
  IF k = 0 THEN 0 ELSE DeltasEmitted(k - 1) + Len(turns[k].deltas)

\* Idle -> Failed: the user Message cannot be persisted because its
\* conversation is gone; the turn ends with an error frame
RtReject(s) ==
  /\ s \in 1..Len(sockets)
  /\ sockets[s].readyState = "OPEN"
  /\ sockets[s].rt = "Idle"
  /\ sockets[s].outbox # << >>
  /\ sockets[s].conv \notin convs
  /\ Len(sockets[s].inbox) < MaxInbox
  /\ LET m == Head(sockets[s].outbox)
     IN /\ sockets' = [sockets EXCEPT
                         ![s].outbox = Tail(@),
                         ![s].inbox = Append(@, Frame("error", << >>, ErrCause, m.turn))]
        /\ turns' = [turns EXCEPT ![m.turn].emitted = Append(@, "error"),
                                  ![m.turn].srv = "ended"]
  /\ UNCHANGED <<pageVars, urlVars, clientVars, now, reqs, storeVars, histVars>>

\* Delivering: a text fragment is emitted as a delta frame
RtDelta(s) ==
  LET fr == Frag(Len(sockets[s].rtAcc) + 1) IN
  /\ s \in 1..Len(sockets)
  /\ sockets[s].readyState = "OPEN"
  /\ InTurn(sockets[s])
  /\ DeltasEmitted(Len(turns)) < MaxDeltas
  /\ Len(sockets[s].inbox) < MaxInbox
  /\ LET t == sockets[s].rtTurn
     IN /\ sockets' = [sockets EXCEPT
                         ![s].inbox = Append(@, Frame("delta", fr, << >>, t)),
                         ![s].rt = "Delivering",
                         ![s].rtAcc = @ \o fr]
        /\ turns' = [turns EXCEPT ![t].emitted = Append(@, "delta"),
                                  ![t].deltas = @ \o fr]
  /\ UNCHANGED <<pageVars, urlVars, clientVars, now, reqs, storeVars, histVars>>

\* Completed, first half: the terminal done frame is emitted
RtDone(s) ==
  /\ s \in 1..Len(sockets)
  /\ sockets[s].readyState = "OPEN"
  /\ InTurn(sockets[s])
  /\ Len(sockets[s].inbox) < MaxInbox
  /\ LET t == sockets[s].rtTurn
     IN /\ sockets' = [sockets EXCEPT
                         ![s].inbox = Append(@, Frame("done", << >>, << >>, t)),
                         ![s].rt = "Completed"]
        /\ turns' = [turns EXCEPT ![t].emitted = Append(@, "done")]
  /\ UNCHANGED <<pageVars, urlVars, clientVars, now, reqs, storeVars, histVars>>

\* Completed, second half: the assembled assistant Message is persisted
RtPersist(s) ==
  /\ s \in 1..Len(sockets)
  /\ sockets[s].rt = "Completed"
  /\ LET t == sockets[s].rtTurn
     IN /\ stored' = Insert(sockets[s].conv, "assistant", sockets[s].rtAcc, t)
        /\ sockets' = [sockets EXCEPT ![s].rt = "Idle", ![s].rtAcc = << >>]
        /\ turns' = [turns EXCEPT ![t].srv = "ended"]
  /\ UNCHANGED <<pageVars, urlVars, clientVars, now, reqs, convs, histVars>>

\* RtFail that persists what was generated so far
RtFail_PersistsPartial(s) ==
  /\ s \in 1..Len(sockets)
  /\ InTurn(sockets[s])
  /\ sockets[s].readyState = "OPEN" => Len(sockets[s].inbox) < MaxInbox
  /\ LET t == sockets[s].rtTurn
     IN /\ sockets' = [sockets EXCEPT
                         ![s].inbox = IF sockets[s].readyState = "OPEN"
                                      THEN Append(@, Frame("error", << >>, ErrCause, t))
                                      ELSE @,
                         ![s].rt = "Idle",
                         ![s].rtAcc = << >>]
        /\ stored' = [stored EXCEPT ![sockets[s].conv] =
                        Append(@, Row(sockets[s].conv, Len(@) + 1, "assistant",
                                      sockets[s].rtAcc, t))]
        /\ turns' = [turns EXCEPT ![t].emitted = Append(@, "error"),
                                  ![t].srv = "ended"]
  /\ UNCHANGED <<pageVars, urlVars, clientVars, now, reqs, convs, histVars>>

\* Failed: generation fails or the channel is gone; one terminal error frame
\* is emitted and nothing is persisted
RtFail(s) ==
  /\ s \in 1..Len(sockets)
  /\ InTurn(sockets[s])
  /\ sockets[s].readyState = "OPEN" => Len(sockets[s].inbox) < MaxInbox
  /\ LET t == sockets[s].rtTurn
     IN /\ sockets' = [sockets EXCEPT
                         ![s].inbox = IF sockets[s].readyState = "OPEN"
                                      THEN Append(@, Frame("error", << >>, ErrCause, t))
                                      ELSE @,
                         ![s].rt = "Idle",
                         ![s].rtAcc = << >>]
        /\ turns' = [turns EXCEPT ![t].emitted = Append(@, "error"),
                                  ![t].srv = "ended"]
  /\ UNCHANGED <<pageVars, urlVars, clientVars, now, reqs, storeVars, histVars>>

(* ------------------------- conversation store -------------------------- *)
\* deleteConversation that removes the conversation row only
deleteConversation_NoCascade(c) ==
  /\ c \in convs
  /\ convs' = convs \ {c}
  /\ deleted' = deleted \cup {c}
  /\ UNCHANGED <<listVars, morePages, urlVars, clientVars, now, sockets, reqs, stored,
                 histVars, turns>>

\* DELETE /api/conversations/{id}: the row of public.conversations goes and,
\* ON DELETE CASCADE, so do the rows of public.messages that reference it
deleteConversation(c) ==
  /\ c \in convs
  /\ convs' = convs \ {c}
  /\ stored' = [stored EXCEPT ![c] = << >>]
  /\ deleted' = deleted \cup {c}
  /\ UNCHANGED <<listVars, morePages, urlVars, clientVars, now, sockets, reqs, histVars,
                 turns>>

(* -------------------------- ConversationList --------------------------- *)
\* rows limit+1.. of a listing response: conversations[offset : offset+limit]
Page(list, off) ==
  SubSeq(list, off + 1, IF off + limit < Len(list) THEN off + limit ELSE Len(list))

\* loadConversations(append) up to its await, in a render whose 'offset' is off
loadConversations(append, off) ==
  /\ loading' = TRUE
  /\ listCalls' = Append(listCalls, [offset |-> IF append THEN off ELSE 0,
                                     append |-> append])
  /\ issued' = Append(issued, IF append THEN off ELSE 0)

\* first render of ConversationList: the effect calls loadConversations()
ListMount ==
  /\ ~listOpen
  /\ listOpen' = TRUE
  /\ loadConversations(FALSE, offset)
  /\ UNCHANGED <<chatVars, deleted, morePages, conversations, hasMore, offset, srvList>>

\* handleLoadMore: the button is rendered when hasMore and enabled when not
\* loading; loadConversations belongs to the same render as the handler
handleLoadMore ==
  /\ listOpen /\ conversations # << >> /\ hasMore /\ ~loading
  /\ Len(issued) < MaxCalls
  /\ offset' = offset + limit
  /\ loadConversations(TRUE, offset)
  /\ UNCHANGED <<chatVars, deleted, morePages, listOpen, conversations, hasMore, srvList>>

\* getConversations returns a page and loadConversations resumes
LoadReturn(i) ==
  /\ i \in 1..Len(listCalls)
  /\ LET c == listCalls[i]
         page == Page(srvList, c.offset)
     IN /\ IF c.append
           THEN conversations' = conversations \o page /\ UNCHANGED offset
           ELSE conversations' = page /\ offset' = 0
        /\ hasMore' = (c.offset + limit < Len(srvList))
  /\ loading' = FALSE
  /\ listCalls' = RemoveAt(listCalls, i)
  /\ UNCHANGED <<chatVars, deleted, morePages, listOpen, issued, srvList>>

\* getConversations throws: the catch block logs, finally clears 'loading'
LoadFail(i) ==
  /\ i \in 1..Len(listCalls)
  /\ loading' = FALSE
  /\ listCalls' = RemoveAt(listCalls, i)
  /\ UNCHANGED <<chatVars, deleted, morePages, listOpen, conversations, hasMore, offset, issued,
                 srvList>>

(* ---------------------------- domain access ---------------------------- *)
\* the rows of user u for domain d
AccessOf(u, d) == {r \in accessRows : r.user_id = u /\ r.domain_id = d}

\* INSERT INTO public.user_domain_access with the column defaults
AccessRow(u, d, k) ==
  [access_id |-> k, user_id |-> u, domain_id |-> d, status |-> "active",
   requested_at |-> k]

\* requestDomainAccess that inserts a row whatever the table holds
requestDomainAccess_NoUnique(u, d) ==
  /\ accessSeq < MaxAccess
  /\ accessRows' = accessRows \cup {AccessRow(u, d, accessSeq + 1)}
  /\ accessSeq' = accessSeq + 1
  /\ accessResp' = [op |-> "request", user |-> u, domain |-> d, ok |-> TRUE,
                    detail |-> Null, before |-> AccessOf(u, d)]
  /\ UNCHANGED <<chatVars, listVars, deleted, inputVars, sessVars, formVars, apiVars, expandVars, loaderVars, toolVars, dbVars, authVars, refVars>>

\* POST /api/domains/{d}/request as user u: UNIQUE(user_id, domain_id)
\* rejects a second row and the call is answered with an error detail
requestDomainAccess(u, d) ==
  /\ IF AccessOf(u, d) # {}
     THEN /\ accessResp' = [op |-> "request", user |-> u, domain |-> d,
                            ok |-> FALSE, detail |-> "exists",
                            before |-> AccessOf(u, d)]
          /\ UNCHANGED <<accessRows, accessSeq>>
     ELSE /\ accessSeq < MaxAccess
          /\ accessRows' = accessRows \cup {AccessRow(u, d, accessSeq + 1)}
          /\ accessSeq' = accessSeq + 1
          /\ accessResp' = [op |-> "request", user |-> u, domain |-> d,
                            ok |-> TRUE, detail |-> Null, before |-> {}]
  /\ UNCHANGED <<chatVars, listVars, deleted, inputVars, sessVars, formVars, apiVars, expandVars, loaderVars, toolVars, dbVars, authVars, refVars>>

\* DELETE /api/domains/{d}/access as user u
revokeDomainAccess(u, d) ==
  /\ accessRows' = accessRows \ AccessOf(u, d)
  /\ accessResp' = [op |-> "revoke", user |-> u, domain |-> d,
                    ok |-> AccessOf(u, d) # {},
                    detail |-> IF AccessOf(u, d) # {} THEN Null ELSE "missing",
                    before |-> AccessOf(u, d)]
  /\ UNCHANGED <<chatVars, listVars, deleted, inputVars, sessVars, formVars, apiVars, expandVars, loaderVars, toolVars, dbVars, authVars, refVars,
                 accessSeq>>

(* ----------------------------- ConfigLoader ---------------------------- *)
\* the strings over Chars of length n
TextsOfLen(n) == [1..n -> Chars]

\* position of the first '}' of s at or after i, 0 if there is none
RECURSIVE FirstClose(_, _)
FirstClose(s, i) ==
  IF i > Len(s) THEN 0
  ELSE IF s[i] = "}" THEN i
  ELSE FirstClose(s, i + 1)

\* re.findall(r'\$\{([^}]+)\}', s) from position i on: the names of the
\* leftmost non-overlapping matches, in order
RECURSIVE FindAll(_, _)
FindAll(s, i) ==
  IF i + 3 > Len(s) THEN << >>
  ELSE IF s[i] = "$" /\ s[i + 1] = "{" /\ FirstClose(s, i + 2) > i + 2
  THEN LET j == FirstClose(s, i + 2)
       IN <<SubSeq(s, i + 2, j - 1)>> \o FindAll(s, j + 1)
  ELSE FindAll(s, i + 1)

\* s.replace(old, new) for a non-empty old
RECURSIVE Replace(_, _, _)
Replace(s, old, new) ==
  IF Len(s) < Len(old) THEN s
  ELSE IF SubSeq(s, 1, Len(old)) = old
  THEN new \o Replace(SubSeq(s, Len(old) + 1, Len(s)), old, new)
  ELSE <<Head(s)>> \o Replace(Tail(s), old, new)

\* os.getenv(name, default)
getenv(name, default) ==
  IF name \in EnvNames /\ environ[name] # Unset THEN environ[name] ELSE default

\* f'${{{name}}}'
Placeholder(name) == <<"$", "{">> \o name \o <<"}">>

\* the loop of _expand_env_vars over the matches from the k-th on
RECURSIVE ExpandFrom(_, _, _)
ExpandFrom(obj, matches, k) ==
  IF k > Len(matches) THEN obj
  ELSE ExpandFrom(Replace(obj, Placeholder(matches[k]),
                          getenv(matches[k], matches[k])),
                  matches, k + 1)

\* _expand_env_vars(obj) for a string obj
expand_env_vars(obj) == ExpandFrom(obj, FindAll(obj, 1), 1)

\* _expand_env_vars is called on the string rawText
ExpandCall ==
  /\ expandedText = Unset
  /\ expandedText' = expand_env_vars(rawText)
  /\ UNCHANGED <<chatVars, listVars, deleted, inputVars, sessVars, formVars, apiVars, accessVars, loaderVars, toolVars, dbVars, authVars, refVars,
                 environ,
                 rawText>>

\* _resolve_references(config, config): the documents are single scalars,
\* which define no key a reference could point at
resolve_references(config, root) == config

\* what load_yaml computes for the text of a document
Resolved(text) ==
  LET config == expand_env_vars(text)
  IN resolve_references(config, config)

\* _expand_env_vars that also expands the string values of a mapping
expand_env_vars_dict_IntoValues(config) ==
  [k \in ConfigKeys |-> expand_env_vars(config[k])]

\* _expand_env_vars(obj) for a dict obj: isinstance(obj, str) is false and
\* obj is returned as it is
expand_env_vars_dict(config) == config

\* the key path a placeholder name spells
KeyPath(k) == <<k>>

\* every ${path} of value whose path is among the first n keys of root is
\* replaced by the value root holds there
RECURSIVE Substitute(_, _, _)
Substitute(value, root, n) ==
  IF n = 0 THEN value
  ELSE Replace(Substitute(value, root, n - 1),
               Placeholder(KeyPath(KeyOrder[n])), root[KeyOrder[n]])

\* a value still points at a key
HasReference(config) ==
  \E k \in ConfigKeys : \E i \in 1..Len(FindAll(config[k], 1)) :
     \E p \in ConfigKeys : FindAll(config[k], 1)[i] = KeyPath(p)

\* _resolve_references(config, root) for a dict: up to n more passes, each
\* replacing the references by the values they point at
RECURSIVE ResolvePasses(_, _)
ResolvePasses(config, n) ==
  IF n = 0 \/ ~HasReference(config) THEN config
  ELSE ResolvePasses([k \in ConfigKeys |->
                        Substitute(config[k], config, Len(KeyOrder))], n - 1)

\* load_yaml(filename) for a document that parses to a dict: the two passes;
\* references that do not converge are a ConfigCycle
load_yaml_dict ==
  /\ ~loadedDoc.loaded
  /\ LET config == ResolvePasses(expand_env_vars_dict(yamlDoc), Len(KeyOrder))
     IN loadedDoc' = [loaded |-> TRUE,
                      error |-> IF HasReference(config) THEN "ConfigCycle"
                                ELSE "none",
                      config |-> config]
  /\ UNCHANGED <<chatVars, listVars, deleted, inputVars, sessVars, formVars, apiVars, accessVars, expandVars,
                 loaderVars, toolVars, dbVars, authVars, yamlDoc>>

\* load_yaml that reads and resolves the document on every call
load_yaml_NoCache(f) ==
  /\ loads < MaxLoads
  /\ loads' = loads + 1
  /\ cache' = [cache EXCEPT ![f] = Resolved(files[f])]
  /\ fileReads' = [fileReads EXCEPT ![f] = @ + 1]
  /\ firstResult' = [firstResult EXCEPT ![f] =
                       IF @ = Unset THEN Resolved(files[f]) ELSE @]
  /\ lastLoad' = [file |-> f, result |-> Resolved(files[f]), hit |-> FALSE]
  /\ UNCHANGED <<chatVars, listVars, deleted, inputVars, sessVars, formVars, apiVars, accessVars, expandVars, toolVars, dbVars, authVars, refVars,
                 files>>

\* load_yaml(filename)
load_yaml(f) ==
  /\ loads < MaxLoads
  /\ loads' = loads + 1
  /\ IF cache[f] # Unset
     THEN /\ lastLoad' = [file |-> f, result |-> cache[f], hit |-> TRUE]
          /\ UNCHANGED <<cache, fileReads, firstResult>>
     ELSE /\ cache' = [cache EXCEPT ![f] = Resolved(files[f])]
          /\ fileReads' = [fileReads EXCEPT ![f] = @ + 1]
          /\ firstResult' = [firstResult EXCEPT ![f] =
                               IF @ = Unset THEN Resolved(files[f]) ELSE @]
          /\ lastLoad' = [file |-> f, result |-> Resolved(files[f]),
                          hit |-> FALSE]
  /\ UNCHANGED <<chatVars, listVars, deleted, inputVars, sessVars, formVars, apiVars, accessVars, expandVars, toolVars, dbVars, authVars, refVars,
                 files>>

\* explicit reload: the process constructs a new ConfigLoader
ConfigLoaderInit ==
  /\ cache # [f \in Files |-> Unset]
  /\ cache' = [f \in Files |-> Unset]
  /\ fileReads' = [f \in Files |-> 0]
  /\ firstResult' = [f \in Files |-> Unset]
  /\ lastLoad' = NoLoad
  /\ UNCHANGED <<chatVars, listVars, deleted, inputVars, sessVars, formVars, apiVars, accessVars, expandVars, toolVars, dbVars, authVars, refVars,
                 files, loads>>

\* the environment of the process changes
setenv(n, v) ==
  /\ environ[n] # v
  /\ environ' = [environ EXCEPT ![n] = v]
  /\ UNCHANGED <<chatVars, listVars, deleted, inputVars, sessVars, formVars, apiVars, accessVars, loaderVars, toolVars, dbVars, authVars, refVars,
                 rawText, expandedText>>

\* a document is edited on disk
EditFile(f, doc) ==
  /\ files[f] # doc
  /\ files' = [files EXCEPT ![f] = doc]
  /\ UNCHANGED <<chatVars, listVars, deleted, inputVars, sessVars, formVars, apiVars, accessVars, expandVars, toolVars, dbVars, authVars, refVars,
                 cache, loads, fileReads, firstResult, lastLoad>>

(* ------------------------------ ToolLoader ----------------------------- *)
\* name.startswith('_')
IsPrivate(name) == name = "_p"

\* the loop over dir(module): the public callables among the first k names
\* of the sorted listing
RECURSIVE PublicCallables(_, _)
PublicCallables(names, k) ==
  IF k = 0 THEN << >>
  ELSE IF ModuleNames[k] \in names /\ ~IsPrivate(ModuleNames[k])
  THEN Append(PublicCallables(names, k - 1), ModuleNames[k])
  ELSE PublicCallables(names, k - 1)

\* load_tools_for_domain(domain_id): an ImportError gives the empty list,
\* otherwise every public callable of the module is returned; nothing is
\* logged and nothing is raised
load_tools_for_domain ==
  /\ ~loadResult.called
  /\ loadResult' =
       [called |-> TRUE, raised |-> FALSE, warnings |-> << >>,
        tools |-> IF toolsModule.importable
                  THEN PublicCallables(toolsModule.names, Len(ModuleNames))
                  ELSE << >>]
  /\ UNCHANGED <<chatVars, listVars, deleted, inputVars, sessVars, formVars, apiVars, accessVars, expandVars,
                 loaderVars, dbVars, authVars, refVars, declared,
                 toolsModule>>

(* ------------------------- schema per domain -------------------------- *)
\* the schema an unqualified table name reaches under a search_path: the
\* first one of the path that defines the table
RECURSIVE Resolve(_, _)
Resolve(path, table) ==
  IF path = << >> THEN UndefinedTable
  ELSE IF <<Head(path), table>> \in catalog THEN Head(path)
  ELSE Resolve(Tail(path), table)

\* the schemas other than sch and public, in some order
RECURSIVE OtherSchemas(_)
OtherSchemas(ss) ==
  IF ss = {} THEN << >>
  ELSE LET x == CHOOSE x \in ss : TRUE IN <<x>> \o OtherSchemas(ss \ {x})

\* a connection whose search_path goes on through the other schemas
get_db_connection_for_domain_EverySchema ==
  /\ ~dbConn.open
  /\ LET schema == IF domainSchema = Null THEN public ELSE domainSchema
     IN dbConn' = [open |-> TRUE, schema |-> schema,
                   search_path |-> <<schema, public>> \o
                                   OtherSchemas(Schemas \ {schema, public})]
  /\ lastQuery' = NoQuery
  /\ UNCHANGED <<chatVars, listVars, deleted, inputVars, sessVars, formVars, apiVars, accessVars, expandVars,
                 loaderVars, toolVars, authVars, refVars, catalog, domainSchema>>

\* get_db_connection_for_domain(): SET search_path TO {schema}, public
get_db_connection_for_domain ==
  /\ ~dbConn.open
  /\ LET schema == IF domainSchema = Null THEN public ELSE domainSchema
     IN dbConn' = [open |-> TRUE, schema |-> schema,
                   search_path |-> <<schema, public>>]
  /\ lastQuery' = NoQuery
  /\ UNCHANGED <<chatVars, listVars, deleted, inputVars, sessVars, formVars, apiVars, accessVars, expandVars,
                 loaderVars, toolVars, authVars, refVars, catalog, domainSchema>>

\* cursor.execute("SELECT * FROM <table>") on the connection
execute(table) ==
  /\ dbConn.open
  /\ lastQuery' = [ran |-> TRUE, table |-> table,
                   reached |-> Resolve(dbConn.search_path, table)]
  /\ UNCHANGED <<chatVars, listVars, deleted, inputVars, sessVars, formVars, apiVars, accessVars, expandVars,
                 loaderVars, toolVars, authVars, refVars, catalog, domainSchema, dbConn>>

\* conn.close()
close ==
  /\ dbConn.open
  /\ dbConn' = NoConn
  /\ UNCHANGED <<chatVars, listVars, deleted, inputVars, sessVars, formVars, apiVars, accessVars, expandVars,
                 loaderVars, toolVars, authVars, refVars, catalog, domainSchema, lastQuery>>

(* ---------------------- AuthProvider and routing ---------------------- *)
\* setState of AuthProvider and the move to location r, followed by the
\* render of the matching Route
SetAuth(auth, tok, calls, r) ==
  /\ authState' = auth
  /\ storedToken' = tok
  /\ authCalls' = calls
  /\ route' = r
  /\ rendered' = Routes(r, auth)
  /\ UNCHANGED <<chatVars, listVars, deleted, inputVars, sessVars, formVars, apiVars, accessVars, expandVars,
                 loaderVars, toolVars, dbVars, refVars>>

LoggedIn == [isAuthenticated |-> TRUE, isLoading |-> FALSE]
LoggedOut == [isAuthenticated |-> FALSE, isLoading |-> FALSE]

\* initAuth: restore the user from storage, or clear it
initAuth ==
  /\ "initAuth" \in authCalls
  /\ IF storedToken
     THEN SetAuth(LoggedIn, TRUE,
                  (authCalls \ {"initAuth"}) \cup {"getCurrentUser"}, route)
     ELSE SetAuth(LoggedOut, FALSE, authCalls \ {"initAuth"}, route)

\* authService.getCurrentUser() of initAuth returns: the user is refreshed,
\* or on failure storage is cleared and the state reset
getCurrentUserReturn(ok) ==
  /\ "getCurrentUser" \in authCalls
  /\ IF ok
     THEN SetAuth(authState, storedToken, authCalls \ {"getCurrentUser"},
                  route)
     ELSE SetAuth(LoggedOut, FALSE, authCalls \ {"getCurrentUser"}, route)

\* login(data), from the login form or after registration
login ==
  /\ rendered.element \in {"LoginPage", "RegisterPage"}
  /\ "login" \notin authCalls
  /\ SetAuth(authState, storedToken, authCalls \cup {"login"}, route)

\* authService.login returns: tokens stored, state set, navigate(CHAT); a
\* failure changes nothing
loginReturn(ok) ==
  /\ "login" \in authCalls
  /\ IF ok
     THEN SetAuth(LoggedIn, TRUE, authCalls \ {"login"}, CHAT)
     ELSE SetAuth(authState, storedToken, authCalls \ {"login"}, route)

\* logout(), from a page shown to a logged-in user
logout ==
  /\ rendered.element = "children"
  /\ "logout" \notin authCalls
  /\ SetAuth(authState, storedToken, authCalls \cup {"logout"}, route)

\* authService.logout settled either way: storage cleared, state reset,
\* navigate(LOGIN)
logoutReturn ==
  /\ "logout" \in authCalls
  /\ SetAuth(LoggedOut, FALSE, authCalls \ {"logout"}, LOGIN)

\* the effect of a rendered <Navigate to=... replace />
NavigateTo ==
  /\ rendered.element = "Navigate"
  /\ SetAuth(authState, storedToken, authCalls, rendered.to)

\* a link or an entered address leads to location r
GoTo(r) ==
  /\ r # route
  /\ SetAuth(authState, storedToken, authCalls, r)

(* ------------------------------ apiClient ------------------------------ *)
\* storage.clearAll(): clearTokens() and clearUser()
clearAll(items) == [k \in STORAGE_KEYS |-> FALSE]

\* storage.setTokens(...) and storage.setUser(...)
setTokens ==
  /\ localStorage' = [k \in STORAGE_KEYS |-> TRUE]
  /\ localStorage' # localStorage
  /\ UNCHANGED <<chatVars, listVars, deleted, inputVars, sessVars, formVars, accessVars, expandVars,
                 loaderVars, toolVars, dbVars, authVars, refVars,
                 href, apiCalls>>

\* a request is made through apiClient
apiRequest ==
  /\ Len(apiCalls) < MaxRequests
  /\ apiCalls' = Append(apiCalls,
        [sent |-> 1, retry |-> FALSE, outcome |-> "pending",
         status |-> NoResponse, before |-> localStorage, after |-> localStorage,
         hrefBefore |-> href, hrefAfter |-> href])
  /\ UNCHANGED <<chatVars, listVars, deleted, inputVars, sessVars, formVars, accessVars, expandVars,
                 loaderVars, toolVars, dbVars, authVars, refVars,
                 localStorage, href>>

\* the response interceptor that leaves the storage alone on a 401
responseInterceptor_KeepsStorage(i, status) ==
  /\ i \in 1..Len(apiCalls)
  /\ apiCalls[i].outcome = "pending"
  /\ IF status = "200"
     THEN /\ apiCalls' = [apiCalls EXCEPT ![i].outcome = "resolved",
                                          ![i].status = status]
          /\ UNCHANGED <<localStorage, href>>
     ELSE IF status = "401" /\ ~apiCalls[i].retry
     THEN /\ localStorage' = localStorage
          /\ href' = LOGIN
          /\ apiCalls' = [apiCalls EXCEPT
                            ![i].outcome = "rejected", ![i].status = status,
                            ![i].retry = TRUE,
                            ![i].before = localStorage,
                            ![i].after = localStorage,
                            ![i].hrefBefore = href, ![i].hrefAfter = LOGIN]
     ELSE /\ apiCalls' = [apiCalls EXCEPT
                            ![i].outcome = "rejected", ![i].status = status,
                            ![i].before = localStorage,
                            ![i].after = localStorage,
                            ![i].hrefBefore = href, ![i].hrefAfter = href]
          /\ UNCHANGED <<localStorage, href>>
  /\ UNCHANGED <<chatVars, listVars, deleted, inputVars, sessVars, formVars, accessVars, expandVars,
                 loaderVars, toolVars, dbVars, authVars, refVars>>

\* apiClient.interceptors.response for the response to request i: a
\* response is passed on; an error is rejected, after clearAll and the
\* redirect to /login when its status is 401
responseInterceptor(i, status) ==
  /\ i \in 1..Len(apiCalls)
  /\ apiCalls[i].outcome = "pending"
  /\ IF status = "200"
     THEN /\ apiCalls' = [apiCalls EXCEPT ![i].outcome = "resolved",
                                          ![i].status = status]
          /\ UNCHANGED <<localStorage, href>>
     ELSE IF status = "401" /\ ~apiCalls[i].retry
     THEN /\ localStorage' = clearAll(localStorage)
          /\ href' = LOGIN
          /\ apiCalls' = [apiCalls EXCEPT
                            ![i].outcome = "rejected", ![i].status = status,
                            ![i].retry = TRUE,
                            ![i].before = localStorage,
                            ![i].after = clearAll(localStorage),
                            ![i].hrefBefore = href, ![i].hrefAfter = LOGIN]
     ELSE /\ apiCalls' = [apiCalls EXCEPT
                            ![i].outcome = "rejected", ![i].status = status,
                            ![i].before = localStorage,
                            ![i].after = localStorage,
                            ![i].hrefBefore = href, ![i].hrefAfter = href]
          /\ UNCHANGED <<localStorage, href>>
  /\ UNCHANGED <<chatVars, listVars, deleted, inputVars, sessVars, formVars, accessVars, expandVars,
                 loaderVars, toolVars, dbVars, authVars, refVars>>

(* ----------------------------- RegisterForm ----------------------------- *)
\* the user types into the password fields, which are disabled while loading
setPassword(p, c) ==
  /\ ~registerForm.isLoading
  /\ registerForm' = [registerForm EXCEPT !.password = p,
                                          !.confirmPassword = c]
  /\ registerForm' # registerForm
  /\ UNCHANGED <<chatVars, listVars, deleted, inputVars, sessVars, accessVars, expandVars,
                 loaderVars, toolVars, dbVars, authVars, refVars, apiVars,
                 authPosts>>

\* authService.login(data): one post to AUTH_LOGIN
authService_login(posts) ==
  Append(posts, [endpoint |-> AUTH_LOGIN, outcome |-> "pending"])

\* AuthProvider.register(data): the call of authService.register is commented
\* out, so what remains is login({email, password})
register(posts) == authService_login(posts)

\* RegisterForm.handleSubmit: the two password checks, then register(...)
handleSubmit ==
  /\ ~registerForm.isLoading
  /\ Len(authPosts) < MaxRequests
  /\ IF registerForm.password # registerForm.confirmPassword
     THEN /\ registerForm' = [registerForm EXCEPT !.error = "passwords differ"]
          /\ UNCHANGED authPosts
     ELSE IF Len(registerForm.password) < 8
     THEN /\ registerForm' = [registerForm EXCEPT
                                !.error = "password shorter than 8"]
          /\ UNCHANGED authPosts
     ELSE /\ registerForm' = [registerForm EXCEPT !.error = "",
                                                  !.isLoading = TRUE]
          /\ authPosts' = register(authPosts)
  /\ UNCHANGED <<chatVars, listVars, deleted, inputVars, sessVars, accessVars, expandVars,
                 loaderVars, toolVars, dbVars, authVars, refVars, apiVars>>

\* the post of login settles: login stores the session and navigates, or
\* throws; register rethrows with the server's detail or 'Registration
\* failed', which handleSubmit shows; finally isLoading is reset
registerSettled(ok) ==
  /\ authPosts # << >>
  /\ Last(authPosts).outcome = "pending"
  /\ authPosts' = [authPosts EXCEPT
                     ![Len(authPosts)].outcome = IF ok THEN "ok" ELSE "failed"]
  /\ registerForm' = [registerForm EXCEPT
                        !.error = IF ok THEN "" ELSE "Registration failed",
                        !.isLoading = FALSE]
  /\ UNCHANGED <<chatVars, listVars, deleted, inputVars, sessVars, accessVars, expandVars,
                 loaderVars, toolVars, dbVars, authVars, refVars, apiVars>>

(* ----------------------- AuthProvider and storage ----------------------- *)
\* AuthState with user and tokens null
SignedOut == [user |-> FALSE, tokens |-> FALSE, isAuthenticated |-> FALSE,
              isLoading |-> FALSE]
\* AuthState after the session was restored or a login succeeded
SignedIn == [user |-> TRUE, tokens |-> TRUE, isAuthenticated |-> TRUE,
             isLoading |-> FALSE]

\* storage.setUser(user)
setUser(items) == [items EXCEPT !["user"] = TRUE]

\* initAuth up to its await: the session is restored from storage when a
\* token that has not expired and a user are stored, else storage is cleared
restoreSession(expired) ==
  /\ "initAuth" \in sessionCalls
  /\ IF localStorage["access_token"] /\ localStorage["user"] /\ ~expired
     THEN /\ session' = SignedIn
          /\ sessionCalls' = (sessionCalls \ {"initAuth"}) \cup {"getCurrentUser"}
          /\ UNCHANGED localStorage
     ELSE /\ localStorage' = clearAll(localStorage)
          /\ session' = SignedOut
          /\ sessionCalls' = sessionCalls \ {"initAuth"}
  /\ UNCHANGED <<sinceLogout, href>>
  /\ UNCHANGED <<chatVars, listVars, deleted, inputVars, accessVars, expandVars,
                 loaderVars, toolVars, dbVars, authVars, refVars, formVars, apiCalls>>

\* initAuth after authService.getCurrentUser() settled
currentUserSettled(ok) ==
  /\ "getCurrentUser" \in sessionCalls
  /\ sessionCalls' = sessionCalls \ {"getCurrentUser"}
  /\ IF ok
     THEN /\ localStorage' = setUser(localStorage)
          /\ session' = [session EXCEPT !.user = TRUE]
     ELSE /\ localStorage' = clearAll(localStorage)
          /\ session' = SignedOut
  /\ UNCHANGED <<sinceLogout, href>>
  /\ UNCHANGED <<chatVars, listVars, deleted, inputVars, accessVars, expandVars,
                 loaderVars, toolVars, dbVars, authVars, refVars, formVars, apiCalls>>

\* refreshUser() is called by a page shown to a signed-in user
refreshUser ==
  /\ session.isAuthenticated
  /\ "refreshUser" \notin sessionCalls
  /\ sessionCalls' = sessionCalls \cup {"refreshUser"}
  /\ UNCHANGED <<session, sinceLogout, localStorage, href>>
  /\ UNCHANGED <<chatVars, listVars, deleted, inputVars, accessVars, expandVars,
                 loaderVars, toolVars, dbVars, authVars, refVars, formVars, apiCalls>>

\* refreshUser after authService.getCurrentUser() settled
refreshUserSettled(ok) ==
  /\ "refreshUser" \in sessionCalls
  /\ sessionCalls' = sessionCalls \ {"refreshUser"}
  /\ IF ok
     THEN /\ localStorage' = setUser(localStorage)
          /\ session' = [session EXCEPT !.user = TRUE]
     ELSE UNCHANGED <<localStorage, session>>
  /\ UNCHANGED <<sinceLogout, href>>
  /\ UNCHANGED <<chatVars, listVars, deleted, inputVars, accessVars, expandVars,
                 loaderVars, toolVars, dbVars, authVars, refVars, formVars, apiCalls>>

\* login(data) is called from the login form
signIn ==
  /\ ~session.isAuthenticated /\ ~session.isLoading
  /\ "login" \notin sessionCalls
  /\ sessionCalls' = sessionCalls \cup {"login"}
  /\ UNCHANGED <<session, sinceLogout, localStorage, href>>
  /\ UNCHANGED <<chatVars, listVars, deleted, inputVars, accessVars, expandVars,
                 loaderVars, toolVars, dbVars, authVars, refVars, formVars, apiCalls>>

\* login after authService.login settled: tokens and user stored, state set,
\* navigate(ROUTES.CHAT)
signInSettled(ok) ==
  /\ "login" \in sessionCalls
  /\ sessionCalls' = sessionCalls \ {"login"}
  /\ IF ok
     THEN /\ localStorage' = [k \in STORAGE_KEYS |-> TRUE]
          /\ session' = SignedIn
          /\ sinceLogout' = FALSE
          /\ href' = CHAT
     ELSE UNCHANGED <<localStorage, session, sinceLogout, href>>
  /\ UNCHANGED <<chatVars, listVars, deleted, inputVars, accessVars, expandVars,
                 loaderVars, toolVars, dbVars, authVars, refVars, formVars, apiCalls>>

\* UserMenu.handleLogout: logout() is called
signOut ==
  /\ session.isAuthenticated
  /\ "logout" \notin sessionCalls
  /\ sessionCalls' = sessionCalls \cup {"logout"}
  /\ UNCHANGED <<session, sinceLogout, localStorage, href>>
  /\ UNCHANGED <<chatVars, listVars, deleted, inputVars, accessVars, expandVars,
                 loaderVars, toolVars, dbVars, authVars, refVars, formVars, apiCalls>>

\* logout after authService.logout() settled, which never throws: the
\* finally block clears storage, resets the state and navigates to LOGIN
signOutSettled ==
  /\ "logout" \in sessionCalls
  /\ sessionCalls' = sessionCalls \ {"logout"}
  /\ localStorage' = clearAll(localStorage)
  /\ session' = SignedOut
  /\ sinceLogout' = TRUE
  /\ href' = LOGIN
  /\ UNCHANGED <<chatVars, listVars, deleted, inputVars, accessVars, expandVars,
                 loaderVars, toolVars, dbVars, authVars, refVars, formVars, apiCalls>>

(* ---------------------------- specification ---------------------------- *)
Next ==
  \/ Mount
  \/ \E i \in 1..Len(reqs) : ServeGet(i)
  \/ \E i \in 1..Len(reqs) : ReturnGet(i)
  \/ \E i \in 1..Len(reqs) : ReturnCreate(i)
  \/ \E i \in 1..Len(reqs) : HttpFail(i)
  \/ \E s \in 1..Len(sockets) : WsOpen(s)
  \/ \E s \in 1..Len(sockets) : WsFail(s)
  \/ \E s \in 1..Len(sockets), d \in 0..MaxNow : OnMessage(s, d)
  \/ \E text \in Texts, d \in 0..MaxNow : sendMessage(text, d)
  \/ \E s \in 1..Len(sockets) : RtReceive(s)
  \/ \E s \in 1..Len(sockets) : RtDelta(s)
  \/ \E s \in 1..Len(sockets) : RtDone(s)
  \/ \E s \in 1..Len(sockets) : RtPersist(s)
  \/ \E s \in 1..Len(sockets) : RtFail(s)

\* one conversation is opened and used: every operation but the URL change
Spec == Init /\ [][Next]_vars

\* the URL changes while the chat is open; the history requests stay
\* unanswered
NextNav ==
  \/ Mount
  \/ \E u \in UrlValues : Navigate(u)
  \/ \E i \in 1..Len(reqs) : ReturnCreate(i)
  \/ \E s \in 1..Len(sockets) : WsOpen(s)
  \/ \E s \in 1..Len(sockets) : WsFail(s)
  \/ \E s \in 1..Len(sockets), d \in 0..MaxNow : OnMessage(s, d)
  \/ \E text \in Texts, d \in 0..MaxNow : sendMessage(text, d)
  \/ \E s \in 1..Len(sockets) : RtReceive(s)
  \/ \E s \in 1..Len(sockets) : RtDelta(s)
  \/ \E s \in 1..Len(sockets) : RtDone(s)
  \/ \E s \in 1..Len(sockets) : RtPersist(s)
  \/ \E s \in 1..Len(sockets) : RtFail(s)

SpecNav == Init /\ [][NextNav]_vars

\* conversations are opened one after the other by changing the URL; no
\* message is sent
NextHist ==
  \/ Mount
  \/ \E u \in UrlValues : Navigate(u)
  \/ \E i \in 1..Len(reqs) : ServeGet(i)
  \/ \E i \in 1..Len(reqs) : ReturnGet(i)
  \/ \E i \in 1..Len(reqs) : ReturnCreate(i)
  \/ \E i \in 1..Len(reqs) : HttpFail(i)

SpecHist == Init /\ [][NextHist]_vars

\* the URL changes while turns are streamed; no request or channel fails
NextSwitch ==
  \/ Mount
  \/ \E u \in UrlValues : Navigate(u)
  \/ \E i \in 1..Len(reqs) : ReturnCreate(i)
  \/ \E s \in 1..Len(sockets) : WsOpen(s)
  \/ \E s \in 1..Len(sockets), d \in 0..MaxNow : OnMessage(s, d)
  \/ \E d \in 0..MaxNow : sendMessage(<<X>>, d)
  \/ \E s \in 1..Len(sockets) : RtReceive(s)
  \/ \E s \in 1..Len(sockets) : RtDelta(s)
  \/ \E s \in 1..Len(sockets) : RtDone(s)

SpecSwitch == Init /\ [][NextSwitch]_vars

\* one conversation whose channel may fail or be closed at any moment
NextLive ==
  \/ Mount
  \/ \E i \in 1..Len(reqs) : ReturnCreate(i)
  \/ \E s \in 1..Len(sockets) : WsOpen(s)
  \/ \E s \in 1..Len(sockets) : WsFail(s)
  \/ \E s \in 1..Len(sockets) : WsClose(s)
  \/ \E s \in 1..Len(sockets), d \in 0..MaxNow : OnMessage(s, d)
  \/ \E d \in 0..MaxNow : sendMessage(<<X>>, d)
  \/ \E s \in 1..Len(sockets) : RtReceive(s)
  \/ \E s \in 1..Len(sockets) : RtDelta(s)
  \/ \E s \in 1..Len(sockets) : RtDone(s)
  \/ \E s \in 1..Len(sockets) : RtFail(s)

\* queued events are handled, pending requests are answered and the runtime
\* keeps going; the user, the network failures and the closing of a channel
\* are under no obligation
Fairness ==
  /\ WF_vars(Mount)
  /\ WF_vars(\E i \in 1..Len(reqs) : ReturnCreate(i))
  /\ WF_vars(\E s \in 1..Len(sockets) : WsOpen(s))
  /\ WF_vars(\E s \in 1..Len(sockets), d \in 0..MaxNow : OnMessage(s, d))
  /\ WF_vars(\E s \in 1..Len(sockets) : RtReceive(s))
  /\ WF_vars(\E s \in 1..Len(sockets) :
               RtDelta(s) \/ RtDone(s) \/ RtFail(s))

SpecLive == Init /\ [][NextLive]_vars /\ Fairness

\* drafts are typed (never erased by the user) and sent while the channel
\* opens or fails
NextInput ==
  \/ Mount
  \/ \E i \in 1..Len(reqs) : ReturnCreate(i)
  \/ \E s \in 1..Len(sockets) : WsOpen(s)
  \/ \E s \in 1..Len(sockets) : WsFail(s)
  \/ \E text \in Texts \ {<< >>} : setInput(text)
  \/ \E d \in 0..MaxNow : handleSend(d)
  \/ \E s \in 1..Len(sockets), d \in 0..MaxNow : OnMessage(s, d)
  \/ \E s \in 1..Len(sockets) : RtReceive(s)
  \/ \E s \in 1..Len(sockets) : RtDelta(s)
  \/ \E s \in 1..Len(sockets) : RtDone(s)

SpecInput == Init /\ [][NextInput]_vars

\* the client's connection management alone: no frame is answered
NextChan ==
  \/ Mount
  \/ \E u \in UrlValues : Navigate(u)
  \/ \E i \in 1..Len(reqs) : ReturnCreate(i)
  \/ \E i \in 1..Len(reqs) : HttpFail(i)
  \/ \E s \in 1..Len(sockets) : WsOpen(s)
  \/ \E s \in 1..Len(sockets) : WsFail(s)
  \/ \E text \in Texts, d \in 0..MaxNow : sendMessage(text, d)

SpecChan == Init /\ [][NextChan]_vars

\* the chat while conversations are deleted from the list page; the history
\* requests stay unanswered
NextStore ==
  \/ Mount
  \/ \E i \in 1..Len(reqs) : ReturnCreate(i)
  \/ \E s \in 1..Len(sockets) : WsOpen(s)
  \/ \E s \in 1..Len(sockets), d \in 0..MaxNow : OnMessage(s, d)
  \/ \E text \in Texts, d \in 0..MaxNow : sendMessage(text, d)
  \/ \E s \in 1..Len(sockets) : RtReceive(s)
  \/ \E s \in 1..Len(sockets) : RtReject(s)
  \/ \E s \in 1..Len(sockets) : RtDelta(s)
  \/ \E s \in 1..Len(sockets) : RtDone(s)
  \/ \E s \in 1..Len(sockets) : RtPersist(s)
  \/ \E s \in 1..Len(sockets) : RtFail(s)
  \/ \E c \in KnownConvs \cup NewConvs : deleteConversation(c)

SpecStore == Init /\ [][NextStore]_vars

\* the domain access endpoints
NextAccess ==
  \/ \E u \in Users, d \in DomainIds : requestDomainAccess(u, d)
  \/ \E u \in Users, d \in DomainIds : revokeDomainAccess(u, d)

SpecAccess == Init /\ [][NextAccess]_vars

\* environment-variable expansion of one string
InitExpand ==
  /\ ChatStart(Null, Null)
  /\ ListStart(0)
  /\ deleted = {}
  /\ AccessStart
  /\ input = << >>
  /\ SessStart
  /\ FormStart
  /\ LoaderStart([f \in Files |-> << >>])
  /\ ToolsStart(<< >>, [importable |-> FALSE, names |-> {}])
  /\ DbStart({}, Null)
  /\ AuthStart(FALSE, CHAT)
  /\ RefStart(PlainDoc)
  /\ ApiStart(NoItems, CHAT)
  /\ environ \in [EnvNames -> EnvValues \cup {Unset}]
  /\ \E n \in 0..MaxText : rawText \in TextsOfLen(n)
  /\ expandedText = Unset

NextExpand == ExpandCall

SpecExpand == InitExpand /\ [][NextExpand]_vars

\* one ConfigLoader while the environment and the documents change
InitLoader ==
  /\ ChatStart(Null, Null)
  /\ ListStart(0)
  /\ deleted = {}
  /\ AccessStart
  /\ input = << >>
  /\ SessStart
  /\ FormStart
  /\ ExpandStart
  /\ ToolsStart(<< >>, [importable |-> FALSE, names |-> {}])
  /\ DbStart({}, Null)
  /\ AuthStart(FALSE, CHAT)
  /\ RefStart(PlainDoc)
  /\ ApiStart(NoItems, CHAT)
  /\ \E fs \in [Files -> Docs] : LoaderStart(fs)

NextLoader ==
  \/ \E f \in Files : load_yaml(f)
  \/ ConfigLoaderInit
  \/ \E n \in EnvNames, v \in EnvValues \cup {Unset} : setenv(n, v)
  \/ \E f \in Files, doc \in Docs : EditFile(f, doc)

SpecLoader == InitLoader /\ [][NextLoader]_vars

\* the registration form, filled in and submitted
NextForm ==
  \/ \E p, c \in Passwords : setPassword(p, c)
  \/ handleSubmit
  \/ \E ok \in BOOLEAN : registerSettled(ok)

SpecForm == Init /\ [][NextForm]_vars

\* the application is loaded with any items in storage
InitSess ==
  /\ ChatStart(Null, Null)
  /\ ListStart(0)
  /\ deleted = {}
  /\ AccessStart
  /\ input = << >>
  /\ ExpandStart
  /\ LoaderStart([f \in Files |-> << >>])
  /\ ToolsStart(<< >>, [importable |-> FALSE, names |-> {}])
  /\ DbStart({}, Null)
  /\ AuthStart(FALSE, CHAT)
  /\ RefStart(PlainDoc)
  /\ FormStart
  /\ SessStart
  /\ \E items \in [STORAGE_KEYS -> BOOLEAN], loc \in RouteValues :
        ApiStart(items, loc)

NextSess ==
  \/ \E expired \in BOOLEAN : restoreSession(expired)
  \/ \E ok \in BOOLEAN : currentUserSettled(ok)
  \/ refreshUser
  \/ \E ok \in BOOLEAN : refreshUserSettled(ok)
  \/ signIn
  \/ \E ok \in BOOLEAN : signInSettled(ok)
  \/ signOut
  \/ signOutSettled

SpecSess == InitSess /\ [][NextSess]_vars

\* the page open at a protected location, with or without a login stored
InitApi ==
  /\ ChatStart(Null, Null)
  /\ ListStart(0)
  /\ deleted = {}
  /\ AccessStart
  /\ input = << >>
  /\ SessStart
  /\ FormStart
  /\ ExpandStart
  /\ LoaderStart([f \in Files |-> << >>])
  /\ ToolsStart(<< >>, [importable |-> FALSE, names |-> {}])
  /\ DbStart({}, Null)
  /\ AuthStart(FALSE, CHAT)
  /\ RefStart(PlainDoc)
  /\ \E items \in {NoItems, [k \in STORAGE_KEYS |-> TRUE]},
        loc \in ProtectedRoutes : ApiStart(items, loc)

NextApi ==
  \/ setTokens
  \/ apiRequest
  \/ \E i \in 1..Len(apiCalls), st \in Statuses : responseInterceptor(i, st)

SpecApi == InitApi /\ [][NextApi]_vars

\* a mapping document with any values, under any environment
InitRefs ==
  /\ ChatStart(Null, Null)
  /\ ListStart(0)
  /\ deleted = {}
  /\ AccessStart
  /\ input = << >>
  /\ SessStart
  /\ FormStart
  /\ LoaderStart([f \in Files |-> << >>])
  /\ ToolsStart(<< >>, [importable |-> FALSE, names |-> {}])
  /\ DbStart({}, Null)
  /\ AuthStart(FALSE, CHAT)
  /\ environ \in [EnvNames -> EnvValues \cup {Unset}]
  /\ rawText = << >>
  /\ expandedText = Unset
  /\ ApiStart(NoItems, CHAT)
  /\ \E doc \in [ConfigKeys -> Values] : RefStart(doc)

NextRefs == load_yaml_dict

SpecRefs == InitRefs /\ [][NextRefs]_vars

\* the app opened at any location, with or without a valid stored token
InitAuth ==
  /\ ChatStart(Null, Null)
  /\ ListStart(0)
  /\ deleted = {}
  /\ AccessStart
  /\ input = << >>
  /\ SessStart
  /\ FormStart
  /\ ExpandStart
  /\ LoaderStart([f \in Files |-> << >>])
  /\ ToolsStart(<< >>, [importable |-> FALSE, names |-> {}])
  /\ DbStart({}, Null)
  /\ RefStart(PlainDoc)
  /\ ApiStart(NoItems, CHAT)
  /\ \E tok \in BOOLEAN, r \in RouteValues : AuthStart(tok, r)

NextAuth ==
  \/ initAuth
  \/ \E ok \in BOOLEAN : getCurrentUserReturn(ok)
  \/ login
  \/ \E ok \in BOOLEAN : loginReturn(ok)
  \/ logout
  \/ logoutReturn
  \/ NavigateTo
  \/ \E r \in RouteValues : GoTo(r)

SpecAuth == InitAuth /\ [][NextAuth]_vars

\* a database with any tables in any schemas, a domain naming its schema
\* or none
InitDb ==
  /\ ChatStart(Null, Null)
  /\ ListStart(0)
  /\ deleted = {}
  /\ AccessStart
  /\ input = << >>
  /\ SessStart
  /\ FormStart
  /\ ExpandStart
  /\ LoaderStart([f \in Files |-> << >>])
  /\ ToolsStart(<< >>, [importable |-> FALSE, names |-> {}])
  /\ AuthStart(FALSE, CHAT)
  /\ RefStart(PlainDoc)
  /\ ApiStart(NoItems, CHAT)
  /\ \E cat \in SUBSET (Schemas \X Tables), sch \in DomainSchemas \cup {Null} :
        DbStart(cat, sch)

NextDb ==
  \/ get_db_connection_for_domain
  \/ \E t \in Tables : execute(t)
  \/ close

SpecDb == InitDb /\ [][NextDb]_vars

\* the sequences over CapNames without repetition
Declarations ==
  {ds \in UNION {[1..n -> CapNames] : n \in 0..Cardinality(CapNames)} :
     \A i, j \in 1..Len(ds) : i # j => ds[i] # ds[j]}

\* the tools modules: not importable, or defining some of ModuleNames
Modules ==
  {[importable |-> FALSE, names |-> {}]} \cup
  {[importable |-> TRUE, names |-> ns] :
     ns \in SUBSET {ModuleNames[k] : k \in 1..Len(ModuleNames)}}

\* capabilities are loaded once for a bundle
InitTools ==
  /\ ChatStart(Null, Null)
  /\ ListStart(0)
  /\ deleted = {}
  /\ AccessStart
  /\ input = << >>
  /\ SessStart
  /\ FormStart
  /\ ExpandStart
  /\ LoaderStart([f \in Files |-> << >>])
  /\ DbStart({}, Null)
  /\ AuthStart(FALSE, CHAT)
  /\ RefStart(PlainDoc)
  /\ ApiStart(NoItems, CHAT)
  /\ \E ds \in Declarations, m \in Modules : ToolsStart(ds, m)

NextTools == load_tools_for_domain

SpecTools == InitTools /\ [][NextTools]_vars

\* the conversation list page, the chat not being open
InitList ==
  /\ ChatStart(Null, Null)
  /\ \E n \in 0..MaxListed : ListStart(n)
  /\ deleted = {}
  /\ MoreStart

NextList ==
  \/ ListMount
  \/ handleLoadMore
  \/ \E i \in 1..Len(listCalls) : LoadReturn(i)
  \/ \E i \in 1..Len(listCalls) : LoadFail(i)

SpecList == InitList /\ [][NextList]_vars

(* ------------------------------ properties ----------------------------- *)
\* the concatenation of the first n fragments of a turn
RECURSIVE FirstFrags(_)
FirstFrags(n) == IF n = 0 THEN << >> ELSE FirstFrags(n - 1) \o Frag(n)

IsPrefix(p, q) == Len(p) <= Len(q) /\ SubSeq(q, 1, Len(p)) = p

SlotEmpty == currentMessageRef = << >> /\ currentMessageIdRef = NoId

\* C1: while a turn is open and nothing but its own frames has written the
\* transcript since its send, the transcript is the one the send left when no
\* delta has been handled and exactly one entry longer once n >= 1 deltas have
\* been handled; that entry is the last one, it is the provisional assistant
\* entry and it holds the n fragments; the same single entry is what the turn
\* holds at its terminal frame.
C1_OneEntryPerTurn ==
  \A t \in 1..Len(turns) :
    LET tr == turns[t]
    IN /\ (tr.cstate = "open" /\ tr.clean) =>
            IF tr.n = 0
            THEN Len(messagesRef) = tr.base
            ELSE /\ Len(messagesRef) = tr.base + 1
                 /\ Last(messagesRef).role = "assistant"
                 /\ Last(messagesRef).id = currentMessageIdRef
                 /\ Last(messagesRef).content = FirstFrags(tr.n)
       /\ (tr.cstate # "open" /\ tr.clean /\ tr.n >= 1) => Len(tr.held) = 1

\* a second delta of an undisturbed turn has been folded
C1_Witness ==
  \E t \in 1..Len(turns) :
    turns[t].cstate = "open" /\ turns[t].clean /\ turns[t].n >= 2

\* C2: when done is handled for a turn that emitted deltas D1..Dn, n >= 1,
\* the client holds one assistant entry for the turn and its content is
\* D1 ++ ... ++ Dn.
C2_DoneHoldsConcat ==
  \A t \in 1..Len(turns) :
    (turns[t].cstate = "done" /\ turns[t].deltas # << >>) =>
       turns[t].held = <<turns[t].deltas>>

\* C3: right after done the provisional slot is empty, and the entries the
\* transcript held when done was handled stay as they were, at the same
\* positions, under every frame and send handled afterwards.
C3_DoneFinalizes ==
  /\ lastEvent.type = "done" => SlotEmpty
  /\ IsPrefix(finalized, messagesRef)

\* a frame handled after a done has written the transcript
C3_Witness ==
  /\ lastEvent.type \in {"delta", "error"}
  /\ finalized # << >>
  /\ \E i \in 1..Len(finalized) : finalized[i].id.kind = "assistant"
  /\ Len(messagesRef) > Len(finalized)

\* the error placeholder the client shows for cause m
IsPlaceholder(e, m) ==
  e.id.kind = "error" /\ e.role = "assistant" /\ e.content = ErrPrefix \o m

ClientKinds == {"user", "assistant", "error"}

\* the entry came from the store
IsSrv(e) == e.id.kind \notin ClientKinds

\* C5: the transcript is always a run of stored Messages of the opened
\* conversation, the i-th entry being its i-th stored row, followed only by
\* entries the client created afterwards, in the order of their turns with
\* the user entry first; right after a history response is applied it
\* consists of that run alone, whatever the transcript held before.
C5_HistoryReplacesInOrder ==
  /\ \A i \in 1..Len(messagesRef) :
       IsSrv(messagesRef[i]) =>
         /\ \A j \in 1..(i - 1) : IsSrv(messagesRef[j])
         /\ i <= Len(stored[conversationId])
         /\ messagesRef[i] = PastMessages(stored[conversationId])[i]
  /\ \A i, j \in 1..Len(messagesRef) :
       (i < j /\ ~IsSrv(messagesRef[i]) /\ ~IsSrv(messagesRef[j])) =>
         /\ messagesRef[i].turn <= messagesRef[j].turn
         /\ messagesRef[i].turn = messagesRef[j].turn =>
              messagesRef[j].id.kind # "user"
  /\ lastEvent.type = "history" =>
       /\ \A i \in 1..Len(messagesRef) : IsSrv(messagesRef[i])
       /\ messages = messagesRef

\* a history response has been applied over a user entry and a provisional
\* assistant entry
C5_Witness ==
  /\ lastEvent.type = "history"
  /\ lastEvent.len >= 2
  /\ messagesRef # << >>
  /\ \E t \in 1..Len(turns) : turns[t].cstate = "open" /\ turns[t].n >= 1
  /\ currentMessageIdRef # NoId

\* C6: the client sends no user frame on a socket on which an earlier turn
\* has not had its done or error frame handled.
C6_OneActiveTurn ==
  \A t \in 1..Len(turns) : ~turns[t].overlap

\* C7: the frames the runtime emits for a turn are deltas followed by at most
\* one terminal frame, which is the last frame of the turn, and a turn that
\* has ended has its terminal frame.
C7_FrameOrder ==
  \A t \in 1..Len(turns) :
    LET e == turns[t].emitted
    IN /\ \A i \in 1..(Len(e) - 1) : e[i] = "delta"
       /\ turns[t].srv = "none" => e = << >>
       /\ turns[t].srv = "ended" => (e # << >> /\ Last(e) \in {"done", "error"})

\* a turn has ended with deltas before its terminal frame
C7_Witness ==
  \E t \in 1..Len(turns) :
    /\ turns[t].srv = "ended"
    /\ Len(turns[t].emitted) >= 3

\* the stored rows of turn t with the given role
RowsOf(t, role) ==
  LET c == sockets[turns[t].sock].conv
  IN {i \in 1..Len(stored[c]) : stored[c][i].turn = t /\ stored[c][i].role = role}

\* C8: once the runtime has taken up a turn, and so before it emits any
\* frame of it, the user's Message of the turn is in the store, and it stays
\* there however the turn ends.
C8_UserPersistedFirst ==
  \A t \in 1..Len(turns) :
    (turns[t].srv # "none" \/ turns[t].emitted # << >>) =>
       \E i \in RowsOf(t, "user") :
          stored[sockets[turns[t].sock].conv][i].content = turns[t].text

\* a turn failed after a delta and its user Message is stored
C8_Witness ==
  \E t \in 1..Len(turns) :
    /\ turns[t].emitted # << >>
    /\ Last(turns[t].emitted) = "error"
    /\ Len(turns[t].emitted) >= 2
    /\ RowsOf(t, "user") # {}

\* C9: whenever the done frame of a turn has been emitted, the assistant
\* Message of the turn is in the store.
C9_PersistedBeforeDone ==
  \A t \in 1..Len(turns) :
    (turns[t].emitted # << >> /\ Last(turns[t].emitted) = "done") =>
       RowsOf(t, "assistant") # {}

\* C10: a turn that ended with an error frame has no assistant Message in
\* the store and exactly one row there, its user Message.
C10_FailedPersistsNothing ==
  \A t \in 1..Len(turns) :
    (turns[t].emitted # << >> /\ Last(turns[t].emitted) = "error") =>
       /\ RowsOf(t, "assistant") = {}
       /\ Cardinality(RowsOf(t, "user")) = 1

\* a turn failed after emitting deltas
C10_Witness ==
  \E t \in 1..Len(turns) :
    /\ turns[t].emitted # << >>
    /\ Last(turns[t].emitted) = "error"
    /\ turns[t].deltas # << >>
    /\ turns[t].srv = "ended"

\* C11: a Conversation is created lazily: as long as no client message has
\* been sent, the store holds no Conversation beyond the ones it held when
\* the chat was opened.
C11_LazyCreation ==
  turns = << >> => convs = KnownConvs

\* C12: no channel exists while conversationId is null, no channel carries a
\* null identifier, the channel in wsRef is the newest one and carries the
\* current conversationId, and a frame the client sent holds the message
\* text of its turn and no conversation identifier.
C12_IdOnlyInChannel ==
  /\ conversationId = Null => sockets = << >>
  /\ \A s \in 1..Len(sockets) : sockets[s].conv # Null
  /\ wsRef # 0 => (wsRef = Len(sockets) /\ sockets[wsRef].conv = conversationId)
  /\ \A s \in 1..Len(sockets) : \A k \in 1..Len(sockets[s].outbox) :
       LET f == sockets[s].outbox[k]
       IN /\ DOMAIN f = {"message", "turn"}
          /\ f.message = turns[f.turn].text
          /\ turns[f.turn].sock = s

\* a second channel was opened for another conversation and a frame was
\* sent on it
C12_Witness ==
  /\ Len(sockets) >= 2
  /\ sockets[1].conv # sockets[2].conv
  /\ wsRef = Len(sockets)
  /\ sockets[wsRef].outbox # << >>

\* the offsets 0, limit, ..., limit * (n - 1)
Offsets(n) == [k \in 1..n |-> limit * (k - 1)]

\* C13: once the initial load and every load-more issued so far have
\* completed, the offsets requested are 0, 20, ..., 20k, each once, and the
\* displayed list is the concatenation of those pages, which is the listing
\* up to row 20(k+1).
C13_PagesInOrder ==
  (listOpen /\ listCalls = << >> /\ conversations # << >>) =>
     /\ issued = Offsets(Len(issued))
     /\ conversations = SubSeq(srvList, 1,
           IF limit * Len(issued) < Len(srvList) THEN limit * Len(issued)
           ELSE Len(srvList))

Contains(t, s) ==
  \E i \in 0..(Len(t) - Len(s)) : SubSeq(t, i + 1, i + Len(s)) = s

\* C17: after the expansion of a string, every placeholder ${NAME} of the
\* string that names an environment variable which is not defined is still
\* in the result as the literal text ${NAME}.
C17_UndefinedLeftUnexpanded ==
  expandedText # Unset =>
    LET names == FindAll(rawText, 1)
    IN \A k \in 1..Len(names) :
         (names[k] \in EnvNames /\ environ[names[k]] = Unset) =>
            Contains(expandedText, Placeholder(names[k]))

\* C16: a ConfigLoader reads a document at most once; as long as it holds a
\* cache entry for a document the entry is the result of its first
\* load_yaml of the document, and the last load_yaml returned that same
\* result, whatever has happened to the environment and to the document on
\* disk since; the entry is replaced only after a reload.
C16_ResolveIdempotent ==
  /\ \A f \in Files :
       /\ fileReads[f] <= 1
       /\ cache[f] # Unset => (cache[f] = firstResult[f] /\ fileReads[f] = 1)
       /\ cache[f] = Unset => (firstResult[f] = Unset /\ fileReads[f] = 0)
  /\ lastLoad.file # Null =>
       /\ lastLoad.result = firstResult[lastLoad.file]
       /\ lastLoad.result = cache[lastLoad.file]
       /\ lastLoad.hit => fileReads[lastLoad.file] = 1

\* a call was served from the cache after the environment changed what the
\* document resolves to
C16_Witness ==
  /\ lastLoad.file # Null
  /\ lastLoad.hit
  /\ files[lastLoad.file] = <<"$", "{", "A", "}">>
  /\ Resolved(files[lastLoad.file]) # lastLoad.result

\* the declared names the tools module resolves, in declaration order
RECURSIVE ResolvedDeclared(_)
ResolvedDeclared(ds) ==
  IF ds = << >> THEN << >>
  ELSE IF toolsModule.importable /\ Head(ds) \in toolsModule.names
  THEN <<Head(ds)>> \o ResolvedDeclared(Tail(ds))
  ELSE ResolvedDeclared(Tail(ds))

\* C18: loading the capabilities of a bundle does not raise; the returned
\* list holds exactly the declared names that resolved and there is one
\* warning for each declared name that did not.
C18_PartialLoad ==
  loadResult.called =>
     /\ ~loadResult.raised
     /\ loadResult.tools = ResolvedDeclared(declared)
     /\ Len(loadResult.warnings) = Len(declared) - Len(ResolvedDeclared(declared))

\* C19: on a connection opened for a domain an unqualified table name
\* reaches the domain's own table when the domain's schema defines it, the
\* table of public when only public defines it, and otherwise fails: it
\* never reaches a table that only another domain's schema defines.
C19_ScopedResolution ==
  (dbConn.open /\ lastQuery.ran) =>
     LET P == dbConn.schema
         t == lastQuery.table
     IN /\ <<P, t>> \in catalog => lastQuery.reached = P
        /\ (<<P, t>> \notin catalog /\ <<public, t>> \in catalog)
             => lastQuery.reached = public
        /\ (<<P, t>> \notin catalog /\ <<public, t>> \notin catalog)
             => lastQuery.reached = UndefinedTable
        /\ P = (IF domainSchema = Null THEN public ELSE domainSchema)

\* a statement on a domain's connection names a table that only the other
\* domain's schema defines, and fails
C19_Witness ==
  /\ dbConn.open /\ lastQuery.ran
  /\ dbConn.schema \in DomainSchemas
  /\ <<dbConn.schema, lastQuery.table>> \notin catalog
  /\ <<public, lastQuery.table>> \notin catalog
  /\ \E Q \in DomainSchemas \ {dbConn.schema} :
        <<Q, lastQuery.table>> \in catalog
  /\ lastQuery.reached = UndefinedTable

\* C20: a protected route shows its children only when isLoading is false
\* and isAuthenticated is true, and when isLoading and isAuthenticated are
\* both false it shows the redirect to the login route.
C20_ProtectedRoute ==
  /\ rendered.element = "children"
       => (~authState.isLoading /\ authState.isAuthenticated)
  /\ (route \in ProtectedRoutes /\ ~authState.isLoading
        /\ ~authState.isAuthenticated)
       => rendered = Shows("Navigate", LOGIN)

\* a logged-in user's session ended while a protected page was shown, and
\* the page gave way to the redirect
C20_Witness ==
  /\ route \in ProtectedRoutes
  /\ "initAuth" \notin authCalls
  /\ ~authState.isLoading /\ ~authState.isAuthenticated
  /\ rendered = Shows("Navigate", LOGIN)

\* C21: right after an error frame is handled the client is not streaming
\* and the channel of the turn is still open; a send of a non-blank text on
\* that channel is then accepted: it starts a new turn on the same channel
\* and puts its frame on it.
C21_ErrorContained ==
  (lastEvent.type = "error" /\ Len(turns) < MaxTurns) =>
     LET s == turns[lastEvent.turn].sock
     IN /\ ~isStreaming
        /\ wsRef = s
        /\ sockets[s].readyState = "OPEN"
        /\ ENABLED (/\ sendMessage(<<X>>, now)
                    /\ isStreaming'
                    /\ Len(turns') = Len(turns) + 1
                    /\ Last(turns').sock = wsRef
                    /\ sockets'[wsRef].readyState = "OPEN"
                    /\ Len(sockets'[wsRef].outbox) = Len(sockets[wsRef].outbox) + 1)

\* a turn ended with an error frame and the next turn was sent on the same
\* channel and taken up by the runtime
C21_Witness ==
  \E t \in 1..Len(turns) : \E u \in (t + 1)..Len(turns) :
    /\ turns[t].cstate = "error"
    /\ turns[u].sock = turns[t].sock
    /\ turns[u].srv # "none"

C23_UnauthorizedLogsOut ==
  \A i \in 1..Len(apiCalls) :
    LET c == apiCalls[i]
    IN /\ c.sent = 1
       /\ c.outcome = "resolved" => c.status = "200"
       /\ c.outcome = "rejected" =>
            /\ c.status # "200"
            /\ c.status = "401" =>
                 (c.after = NoItems /\ c.hrefAfter = LOGIN)
            /\ c.status # "401" =>
                 (c.after = c.before /\ c.hrefAfter = c.hrefBefore)

\* a 401 arrived while tokens and a user were stored, and another error
\* arrived too
C23_Witness ==
  \E i, j \in 1..Len(apiCalls) :
    /\ apiCalls[i].outcome = "rejected" /\ apiCalls[i].status = "401"
    /\ apiCalls[i].before = [k \in STORAGE_KEYS |-> TRUE]
    /\ apiCalls[i].hrefBefore # LOGIN
    /\ apiCalls[j].outcome = "rejected" /\ apiCalls[j].status = "500"
    /\ apiCalls[j].before = [k \in STORAGE_KEYS |-> TRUE]

\* C24: a post to the login endpoint made by register comes after a post to
\* the registration endpoint that succeeded.
C24_RegistrationFirst ==
  \A i \in 1..Len(authPosts) :
    authPosts[i].endpoint = AUTH_LOGIN =>
      \E j \in 1..(i - 1) : /\ authPosts[j].endpoint = AUTH_REGISTER
                            /\ authPosts[j].outcome = "ok"

\* C25: whenever no request of initConversation is in flight, every entry
\* of the transcript is a Message of the conversation conversationId names.
C25_TranscriptOfCurrentConversation ==
  (mounted /\ reqs = << >>) =>
     \A i \in 1..Len(messages) : messages[i].id.kind = conversationId

DeadChannel ==
  /\ isStreaming
  /\ wsRef # 0
  /\ sockets[wsRef].readyState = "CLOSED"

\* C27: when the channel closes or errors while a turn is in progress,
\* isStreaming eventually returns to false.
C27_StreamingEnds == DeadChannel ~> ~isStreaming

\* the conditions under which a call of sendMessage(text) is to be rejected
Rejected(text) ==
  \/ \A k \in 1..Len(text) : text[k] = SP
  \/ wsRef = 0
  \/ sockets[wsRef].readyState # "OPEN"
  \/ isStreaming

\* what an accepted call sendMessage(text) is to do
Accepted(text) ==
  /\ messages' = Append(messages, Last(messages'))
  /\ Last(messages').role = "user"
  /\ Last(messages').content = text
  /\ isStreaming'
  /\ currentMessageRef' = << >>
  /\ currentMessageIdRef' = NoId
  /\ sockets' = [sockets EXCEPT ![wsRef].outbox =
                    Append(@, Last(sockets'[wsRef].outbox))]
  /\ Last(sockets'[wsRef].outbox).message = text
  /\ DOMAIN Last(sockets'[wsRef].outbox) = {"message", "turn"}

\* C28: a rejected call of sendMessage changes nothing, sending no frame; an
\* accepted call appends one user entry with the text, sets isStreaming,
\* empties the provisional slot and sends one frame carrying the text.
C28_SendOrNothing ==
  mounted =>
    \A text \in Texts, d \in Clock :
      IF Rejected(text)
      THEN ~ENABLED (sendMessage(text, d) /\ vars' # vars)
      ELSE /\ Len(turns) < MaxTurns =>
                ENABLED (sendMessage(text, d) /\ Accepted(text))
           /\ ~ENABLED (sendMessage(text, d) /\ ~Accepted(text))

\* a message was accepted on the open channel and its turn is in progress,
\* so that any further call is one to reject
C28_Witness ==
  /\ lastEvent.type = "send"
  /\ isStreaming
  /\ sockets[wsRef].readyState = "OPEN"
  /\ sockets[wsRef].outbox # << >>
  /\ Last(messages).role = "user"

\* C29: from the completion of logout until the next login the state is
\* unauthenticated with user and tokens null, and storage holds no tokens
\* and no user.
C29_LoggedOutStays ==
  sinceLogout =>
    /\ ~session.isAuthenticated
    /\ ~session.user
    /\ ~session.tokens
    /\ localStorage = NoItems

\* C30: a step of handleSend that discards the draft has sent a frame.
C30_DraftKeptUnlessSent ==
  [][\A d \in 0..MaxNow :
       (handleSend(d) /\ input' # input) =>
          \E s \in 1..Len(sockets) :
             Len(sockets'[s].outbox) = Len(sockets[s].outbox) + 1]_vars

====
